---- MODULE Spec2Model ----
(***************************************************************************)
(* Model of arxiv_explorer's recommendation engine                         *)
(* (src/arxiv_explorer/services/recommendation.py).                        *)
(*                                                                         *)
(* Numbers: Python floats are modelled by exact rationals <<num, den>> in  *)
(* lowest terms; text is a sequence of one-character strings; time is      *)
(* counted in ticks, Day ticks to the day.                                 *)
(***************************************************************************)
EXTENDS Integers, Sequences, FiniteSets, TLC

VARIABLES
    is_fitted,             \* RecommendationEngine._is_fitted
    vocabulary,            \* the vectorizer's fitted vocabulary_ (a set of terms)
    idf,                   \* the vectorizer's fitted idf_ (term -> hundredths)
    built_profile,         \* the value build_user_profile returned last (the caller holds it)
    liked_papers,          \* the argument of the build_user_profile call at hand
    op,                    \* the call whose result is at hand, or "idle"
    papers,                \* score_papers argument: the candidate list
    user_profile,          \* score_papers argument
    preferred_categories,  \* score_papers argument
    keywords,              \* score_papers argument
    nows,                  \* the datetime.now() reading taken for each candidate
    scored,                \* score_papers' local `results` when its loop ends
    results,               \* score_papers return value: `results` after the sort
    raised,                \* the exception the last call ended with, or None
    threads,               \* worker threads inside get_daily_papers: where each is, what it holds
    witnessed,             \* how many fits wrote the vocabulary; whether a projection read it half-written
    previous,              \* the score_papers call that returned last, where calls are compared
    db,                    \* the SQLite database at Config.db_path: its tables and row-id counters
    session                \* the service calls on the database: the call at hand and what it returned

vars == <<is_fitted, vocabulary, idf, built_profile, liked_papers, op, papers, user_profile,
          preferred_categories, keywords, nows, scored, results, raised,
          threads, witnessed, previous, db, session>>

\* the recommendation engine and the calls on it
engine_vars == <<is_fitted, vocabulary, idf, built_profile, liked_papers, op, papers,
                 user_profile, preferred_categories, keywords, nows, scored, results, raised,
                 threads, witnessed, previous>>

\* the database and the service calls on it
store_vars == <<db, session>>

\* what a single call in flight holds
call_vars == <<built_profile, liked_papers, op, papers, user_profile,
               preferred_categories, keywords, nows, scored, results, raised, previous>>

NoCall == [kind |-> "None"]

None == "None"

\* An optional ndarray (np.ndarray | None), tagged so that the two cases compare
NoProfile == [kind |-> "None"]
Ndarray(v) == [kind |-> "ndarray", values |-> v]

-----------------------------------------------------------------------------
(* Bounds of the model.                                                    *)

MaxPapers == 2      \* longest candidate list passed to score_papers
MaxPriority == 2    \* largest category priority
Day == 2            \* clock ticks per day

-----------------------------------------------------------------------------
(* Exact rational arithmetic standing for Python float arithmetic.         *)

Abs(n) == IF n < 0 THEN -n ELSE n

RECURSIVE Gcd(_, _)
Gcd(a, b) == IF b = 0 THEN a ELSE Gcd(b, a % b)

Rat(n, d) ==
    LET g == Gcd(Abs(n), Abs(d))
        s == IF d < 0 THEN -1 ELSE 1
    IN  <<(s * n) \div g, (s * d) \div g>>

Zero == <<0, 1>>
One == <<1, 1>>
RAdd(a, b) == Rat(a[1] * b[2] + b[1] * a[2], a[2] * b[2])
RSub(a, b) == Rat(a[1] * b[2] - b[1] * a[2], a[2] * b[2])
RMul(a, b) == Rat(a[1] * b[1], a[2] * b[2])
RLt(a, b) == a[1] * b[2] < b[1] * a[2]
RLe(a, b) == a[1] * b[2] <= b[1] * a[2]

-----------------------------------------------------------------------------
(* Config: the recommendation weights.                                     *)

content_weight == Rat(5, 10)
category_weight == Rat(2, 10)
keyword_weight == Rat(1, 10)
recency_weight == Rat(5, 100)
RecencyWindowDays == 30

-----------------------------------------------------------------------------
(* Text.  A string is a sequence of characters; str.lower() maps the       *)
(* upper-case letters to lower case and leaves the rest alone.             *)

LowerChar(ch) ==
    CASE ch = "M" -> "m"
      [] ch = "L" -> "l"
      [] ch = "Q" -> "q"
      [] OTHER -> ch

Lower(str) == [i \in 1..Len(str) |-> LowerChar(str[i])]

\* f"{p.title} {p.abstract}"
Document(p) == p.title \o <<" ">> \o p.abstract

\* Python's `keyword in text` on strings: substring search.
Contains(text, keyword) ==
    \E i \in 0..(Len(text) - Len(keyword)) :
        SubSeq(text, i + 1, i + Len(keyword)) = keyword

-----------------------------------------------------------------------------
(* TfidfVectorizer(max_features=5000, stop_words="english",                *)
(* ngram_range=(1, 2), min_df=1) and cosine_similarity, in fixed point:    *)
(* idf in hundredths, vector components scaled to NormScale, cosine in     *)
(* hundredths.  The cosine is exact at its two ends: 0 exactly when the    *)
(* dot product is 0 (or a vector is all zero), 1 exactly when the vectors  *)
(* are parallel.                                                           *)

NormScale == 50
StopWords == {<<"o", "f">>}

RECURSIVE Words(_, _)
Words(text, cur) ==
    IF text = <<>>
    THEN IF cur = <<>> THEN <<>> ELSE <<cur>>
    ELSE IF Head(text) = " "
         THEN (IF cur = <<>> THEN <<>> ELSE <<cur>>) \o Words(Tail(text), <<>>)
         ELSE Words(Tail(text), Append(cur, Head(text)))

\* lowercase, tokens of two or more word characters, stop words removed
IsToken(w) == Len(w) >= 2 /\ w \notin StopWords
Tokens(doc) == SelectSeq(Words(Lower(doc), <<>>), IsToken)

\* unigrams and bigrams of the token list
Terms(doc) ==
    LET t == Tokens(doc)
    IN  {<<t[i]>> : i \in 1..Len(t)} \cup {<<t[i], t[i + 1]>> : i \in 1..(Len(t) - 1)}

TermCount(term, tokens) ==
    Cardinality({i \in 1..(Len(tokens) - Len(term) + 1) :
                    SubSeq(tokens, i, i + Len(term) - 1) = term})

RECURSIVE SumOver(_, _)
SumOver(f, dom) ==
    IF dom = {} THEN 0
    ELSE LET x == CHOOSE y \in dom : TRUE
         IN  f[x] + SumOver(f, dom \ {x})

\* floor of the square root (Newton's iteration)
RECURSIVE ISqrtFrom(_, _)
ISqrtFrom(n, x) ==
    LET y == (x + n \div x) \div 2
    IN  IF y >= x THEN x ELSE ISqrtFrom(n, y)

ISqrt(n) == IF n < 2 THEN n ELSE ISqrtFrom(n, n \div 2)

\* the one element of a singleton set
The(set) == CHOOSE x \in set : TRUE

\* 100 * ln(k) for the document counts the model reaches
LnHundredths(k) ==
    CASE k = 1 -> 0
      [] k = 2 -> 69
      [] k = 3 -> 110
      [] k = 4 -> 139
      [] k = 5 -> 161
      [] OTHER -> 179

\* smooth idf: ln((1 + n) / (1 + df)) + 1
FitVocabulary(docs) == UNION {Terms(docs[i]) : i \in 1..Len(docs)}

FitIdf(docs) ==
    [t \in FitVocabulary(docs) |->
        LET df == Cardinality({i \in 1..Len(docs) : t \in Terms(docs[i])})
        IN  100 + LnHundredths(1 + Len(docs)) - LnHundredths(1 + df)]

\* tf * idf of the fitted vocabulary's terms in one document; terms outside
\* the vocabulary are ignored
TfIdf(doc, vocab, idfs) ==
    The({[t \in vocab |-> TermCount(t, tokens) * idfs[t]] : tokens \in {Tokens(doc)}})

\* norm="l2": a row divided by its Euclidean length, an all-zero row left as it is
Normalize(raw) ==
    The({[t \in DOMAIN raw |-> IF norm = 0 THEN 0 ELSE (raw[t] * NormScale) \div norm] :
            norm \in {ISqrt(SumOver([t \in DOMAIN raw |-> raw[t] * raw[t]], DOMAIN raw))}})

\* one row of vectorizer.transform
Transform(doc, vocab, idfs) ==
    The({Normalize(raw) : raw \in {TfIdf(doc, vocab, idfs)}})

\* vectors.mean(axis=0)
MeanVector(rows, vocab) ==
    [t \in vocab |-> SumOver([i \in 1..Len(rows) |-> rows[i][t]], 1..Len(rows))
                        \div Len(rows)]

\* variant: a zero vector taken to be parallel to everything
CosineOfZeroAsOne(dot, uu, vv) ==
    IF uu = 0 \/ vv = 0 THEN One
    ELSE IF dot = 0 THEN Zero
    ELSE IF dot * dot = uu * vv THEN One
    ELSE LET pct == ISqrt((dot * dot * 100) \div (((uu * vv) \div 100) + 1))
         IN  Rat(IF pct < 1 THEN 1 ELSE IF pct > 99 THEN 99 ELSE pct, 100)

\* sklearn cosine_similarity of two rows, as a rational in [0, 1]
Dot(u, v) == SumOver([t \in DOMAIN u |-> u[t] * v[t]], DOMAIN u)

CosineOf(dot, uu, vv) ==
    IF uu = 0 \/ vv = 0 \/ dot = 0 THEN Zero
    ELSE IF dot * dot = uu * vv THEN One
    ELSE LET pct == ISqrt((dot * dot * 100) \div (((uu * vv) \div 100) + 1))
         IN  Rat(IF pct < 1 THEN 1 ELSE IF pct > 99 THEN 99 ELSE pct, 100)

CosineSimilarity(u, v) ==
    The({CosineOf(d[1], d[2], d[3]) : d \in {<<Dot(u, v), Dot(u, u), Dot(v, v)>>}})

-----------------------------------------------------------------------------
(* score_papers: the four terms of one paper's score.                      *)

Min(set) == CHOOSE x \in set : \A y \in set : x <= y
Max(set) == CHOOSE x \in set : \A y \in set : x >= y

\* {c.category: c.priority for c in preferred_categories}: a later entry of
\* the list overwrites an earlier one with the same key
category_priorities(cats) ==
    [c \in {cats[i].category : i \in 1..Len(cats)} |->
        cats[Max({i \in 1..Len(cats) : cats[i].category = c})].priority]

\* variant: min(...) written for max(...)
min_priority(cats) ==
    IF cats = <<>> THEN 1 ELSE Min({cats[i].priority : i \in 1..Len(cats)})

\* max((c.priority for c in preferred_categories), default=1)
max_priority(cats) ==
    IF cats = <<>> THEN 1 ELSE Max({cats[i].priority : i \in 1..Len(cats)})

\* {k.keyword: k.weight for k in keywords}
keyword_weights(kws) ==
    [k \in {kws[i].keyword : i \in 1..Len(kws)} |->
        kws[Max({i \in 1..Len(kws) : kws[i].keyword = k})].weight]

\* variant: the candidate projected from its title alone
ContentTermTitleOnly(paper, profile, fitted, vocab, idfs) ==
    IF profile # NoProfile /\ fitted
    THEN RMul(CosineSimilarity(profile.values, Transform(paper.title, vocab, idfs)),
              content_weight)
    ELSE Zero

\* variant: a similarity of 1 taken when the content step is skipped
ContentTermDefaultOne(paper, profile, fitted, vocab, idfs) ==
    IF profile # NoProfile /\ fitted
    THEN RMul(CosineSimilarity(profile.values, Transform(Document(paper), vocab, idfs)),
              content_weight)
    ELSE RMul(One, content_weight)

\* 1. Content similarity (TF-IDF)
ContentTerm(paper, profile, fitted, vocab, idfs) ==
    IF profile # NoProfile /\ fitted
    THEN The({RMul(CosineSimilarity(profile.values, paper_vector), content_weight) :
                paper_vector \in {Transform(Document(paper), vocab, idfs)}})
    ELSE Zero

\* variant: the loop over paper.categories without its `break`, every
\* preferred tag adding its share
RECURSIVE CategorySum(_, _, _, _)
CategorySum(tags, prio, top, k) ==
    IF k > Len(tags) THEN Zero
    ELSE RAdd(IF tags[k] \in DOMAIN prio
              THEN RMul(category_weight, IF top > 0 THEN Rat(prio[tags[k]], top) ELSE One)
              ELSE Zero,
              CategorySum(tags, prio, top, k + 1))

CategoryTermWithoutBreak(paper, cats) ==
    CategorySum(paper.categories, category_priorities(cats), max_priority(cats), 1)

\* 2. Category matching: the loop over paper.categories breaks at the first match
CategoryTerm(paper, cats) ==
    LET prio == category_priorities(cats)
        hits == {i \in 1..Len(paper.categories) : paper.categories[i] \in DOMAIN prio}
    IN  IF hits = {} THEN Zero
        ELSE LET priority == prio[paper.categories[Min(hits)]]
                 normalized == IF max_priority(cats) > 0
                               THEN Rat(priority, max_priority(cats))
                               ELSE One
             IN  RMul(category_weight, normalized)

\* 3. Keyword matching: every keyword found in the lower-cased text adds its weight
RECURSIVE KeywordSum(_, _, _)
KeywordSum(text, weights, keys) ==
    IF keys = {} THEN Zero
    ELSE LET k == CHOOSE x \in keys : TRUE
             rest == KeywordSum(text, weights, keys \ {k})
         IN  IF Contains(text, k)
             THEN RAdd(RMul(keyword_weight, weights[k]), rest)
             ELSE rest

\* variant: the largest matching weight instead of the sum of the matching weights
RECURSIVE KeywordMax(_, _, _)
KeywordMax(text, weights, keys) ==
    IF keys = {} THEN Zero
    ELSE LET k == CHOOSE x \in keys : TRUE
             rest == KeywordMax(text, weights, keys \ {k})
             mine == IF Contains(text, k) THEN RMul(keyword_weight, weights[k]) ELSE Zero
         IN  IF RLt(rest, mine) THEN mine ELSE rest

KeywordTermMax(paper, kws) ==
    KeywordMax(Lower(Document(paper)), keyword_weights(kws), DOMAIN keyword_weights(kws))

KeywordTerm(paper, kws) ==
    KeywordSum(Lower(Document(paper)), keyword_weights(kws), DOMAIN keyword_weights(kws))

\* 4. Recency bonus: (datetime.now() - paper.published).days floors the age
days_old(paper, now) == (now - paper.published) \div Day

\* variant: days_old // 30 written for days_old / 30
RecencyTermFloorDivision(paper, now) ==
    IF days_old(paper, now) < RecencyWindowDays
    THEN RMul(recency_weight,
              RSub(One, Rat(days_old(paper, now) \div RecencyWindowDays, 1)))
    ELSE Zero

RecencyTerm(paper, now) ==
    IF days_old(paper, now) < RecencyWindowDays
    THEN RMul(recency_weight, RSub(One, Rat(days_old(paper, now), RecencyWindowDays)))
    ELSE Zero

Score(paper, profile, cats, kws, now, fitted, vocab, idfs) ==
    RAdd(RAdd(RAdd(ContentTerm(paper, profile, fitted, vocab, idfs),
                   CategoryTerm(paper, cats)),
              KeywordTerm(paper, kws)),
         RecencyTerm(paper, now))

\* variant: the sort without reverse=True (ascending, stable)
InsertByScoreAscending(sorted, r) ==
    LET ahead == {i \in 1..Len(sorted) : RLe(sorted[i].score, r.score)}
        k == Cardinality(ahead)
    IN  SubSeq(sorted, 1, k) \o <<r>> \o SubSeq(sorted, k + 1, Len(sorted))

\* variant: a descending sort that puts a later entry ahead of its equals
\* (sorted(results, key=score)[::-1])
InsertByScoreReversingTies(sorted, r) ==
    LET ahead == {i \in 1..Len(sorted) : RLt(r.score, sorted[i].score)}
        k == Cardinality(ahead)
    IN  SubSeq(sorted, 1, k) \o <<r>> \o SubSeq(sorted, k + 1, Len(sorted))

\* results.sort(key=lambda x: x.score, reverse=True): a stable sort, equal
\* scores keep the order they were appended in
InsertByScore(sorted, r) ==
    LET ahead == {i \in 1..Len(sorted) : RLe(r.score, sorted[i].score)}
        k == Cardinality(ahead)
    IN  SubSeq(sorted, 1, k) \o <<r>> \o SubSeq(sorted, k + 1, Len(sorted))

RECURSIVE SortByScore(_)
SortByScore(rs) ==
    IF rs = <<>> THEN <<>>
    ELSE InsertByScore(SortByScore(SubSeq(rs, 1, Len(rs) - 1)), rs[Len(rs)])

\* variant: the loop running over papers[1:]
ScoredSkippingFirst(ps, profile, cats, kws, ns, fitted, vocab, idfs) ==
    [i \in 1..(Len(ps) - 1) |->
        [paper |-> ps[i + 1],
         score |-> Score(ps[i + 1], profile, cats, kws, ns[i + 1], fitted, vocab, idfs)]]

\* the list `results` holds when the loop ends: one RecommendedPaper per paper
Scored(ps, profile, cats, kws, ns, fitted, vocab, idfs) ==
    [i \in 1..Len(ps) |->
        [paper |-> ps[i],
         score |-> Score(ps[i], profile, cats, kws, ns[i], fitted, vocab, idfs)]]

-----------------------------------------------------------------------------
(* The inputs the calls are made with.                                     *)

Paper(id, title, abstract, categories, published) ==
    [arxiv_id |-> id, title |-> title, abstract |-> abstract,
     categories |-> categories, published |-> published]

\* Papers X and Y differ in their category only and turn two days old one
\* tick after the first clock reading; Z is 15 days old and V 60; W turns 30
\* days old on that tick and holds a stop word only; U is published one tick
\* after the first clock reading.
PaperX == Paper("X", <<"M", "L">>, <<"q", "c">>, <<"hep-ph">>, 1 - 2 * Day)
PaperY == Paper("Y", <<"M", "L">>, <<"q", "c">>, <<"cs.AI">>, 1 - 2 * Day)
PaperZ == Paper("Z", <<"m", "l">>, <<>>, <<"cs.AI", "hep-ph">>, 0 - 15 * Day)
PaperW == Paper("W", <<>>, <<"o", "f">>, <<"math.AG">>, 1 - 30 * Day)
PaperV == Paper("V", <<"q", "c">>, <<"m", "l">>, <<>>, 0 - 60 * Day)
PaperU == Paper("U", <<"M", "L">>, <<>>, <<"math.AG", "cs.AI">>, 1)

PaperPool == {PaperX, PaperY, PaperZ, PaperW, PaperV, PaperU}

SeqsUpTo(set, n) == UNION {[1..k -> set] : k \in 0..n}

PaperLists == SeqsUpTo(PaperPool, MaxPapers)

\* Python's None in Paper.published, kept apart from every timestamp
NoTimestamp == 0 - 9999

\* a paper the data layer handed over without a published timestamp
PaperN == Paper("N", <<"M", "L">>, <<"q", "c">>, <<"hep-ph">>, NoTimestamp)

\* candidate lists holding such a paper: alone, last and first
UndatedLists == {<<PaperN>>, <<PaperX, PaperN>>, <<PaperN, PaperX>>}

\* datetime.now() is read once per paper; the clock does not run backwards
Ticks == {0, 1}
ClockReadings(n) == {ns \in [1..n -> Ticks] : \A i \in 1..(n - 1) : ns[i] <= ns[i + 1]}

PreferredCategory(category, priority) == [category |-> category, priority |-> priority]
KeywordInterest(keyword, weight) == [keyword |-> keyword, weight |-> weight]

\* what get_categories() can return for the categories hep-ph and cs.AI:
\* one entry per category, ORDER BY priority DESC
Priorities == 0..MaxPriority
PreferredNames == {"hep-ph", "cs.AI"}
CategoryLists ==
    {<<>>}
    \cup {<<PreferredCategory(c, p)>> : c \in PreferredNames, p \in Priorities}
    \cup {<<PreferredCategory(c[1], p[1]), PreferredCategory(c[2], p[2])>> :
            c \in {d \in PreferredNames \X PreferredNames : d[1] # d[2]},
            p \in {q \in Priorities \X Priorities : q[1] >= q[2]}}

\* what get_keywords() can return for the keywords "ml" and "qc":
\* one entry per keyword, ORDER BY weight DESC
Weights == {Rat(1, 1), Rat(3, 2)}
KeywordNames == {<<"m", "l">>, <<"q", "c">>}
KeywordLists ==
    {<<>>}
    \cup {<<KeywordInterest(k, w)>> : k \in KeywordNames, w \in Weights}
    \cup {<<KeywordInterest(k[1], w[1]), KeywordInterest(k[2], w[2])>> :
            k \in {d \in KeywordNames \X KeywordNames : d[1] # d[2]},
            w \in {q \in Weights \X Weights : RLe(q[2], q[1])}}

\* tests/conftest.py sample_categories
SampleCategories == <<PreferredCategory("hep-ph", 2), PreferredCategory("cs.AI", 1)>>

\* tests/conftest.py sample_keywords, with the model's two keywords
SampleKeywords == <<KeywordInterest(<<"m", "l">>, Rat(3, 2)), KeywordInterest(<<"q", "c">>, Rat(1, 1))>>

\* the preference snapshots a call without a profile is made with: every
\* category list without keywords, and every keyword list with the sample
\* categories
Preferences ==
    {<<c, <<>>>> : c \in CategoryLists} \cup {<<SampleCategories, k>> : k \in KeywordLists}

\* the preference snapshots get_daily_papers passes along with a profile (it
\* returns early unless a category is preferred), and the ones an engine that
\* get_daily_papers has fitted is called with afterwards
ProfilePreferences ==
    {<<SampleCategories, k>> : k \in {<<>>, SampleKeywords}}
        \cup {<<<<PreferredCategory("cs.AI", 1)>>, <<>>>>}

PreferencesFor(prof) ==
    IF prof = NoProfile /\ ~is_fitted THEN Preferences ELSE ProfilePreferences

\* the liked-paper lists build_user_profile is called with: none, a paper
\* with text, a paper holding a stop word only, a paper with other bigrams
LikedLists == {<<>>, <<PaperX>>, <<PaperW>>, <<PaperV>>}

\* the profile another RecommendationEngine instance built from PaperX
OtherEngineProfile ==
    Ndarray(MeanVector(<<Transform(Document(PaperX),
                                   FitVocabulary(<<Document(PaperX)>>),
                                   FitIdf(<<Document(PaperX)>>))>>,
                       FitVocabulary(<<Document(PaperX)>>)))

\* the profiles a caller can pass: get_daily_papers passes on what
\* build_user_profile just handed it, search_papers passes None, and an engine
\* that was never fitted can be handed a profile from another instance
Profiles ==
    IF built_profile # NoProfile THEN {built_profile}
    ELSE IF is_fitted THEN {NoProfile}
    ELSE {NoProfile, OtherEngineProfile}

-----------------------------------------------------------------------------
(* core/database.py: the database init_db creates.  A table is a set of    *)
(* rows; a table with INTEGER PRIMARY KEY AUTOINCREMENT takes its next id  *)
(* from a counter that never goes back (sqlite_sequence).                  *)

\* the tables SCHEMA creates
SCHEMA ==
    {"preferred_categories", "paper_interactions", "paper_summaries", "reading_lists",
     "reading_list_papers", "paper_notes", "keyword_interests", "paper_translations",
     "app_settings", "papers"}

\* init_db on a path without a database file: every table of SCHEMA, empty
init_db == [rows |-> [t \in SCHEMA |-> {}], sequence |-> [t \in SCHEMA |-> 0]]

\* sqlite3.OperationalError: no such table
NoSuchTable(d, table) == table \notin DOMAIN d.rows

\* the rows of a table; INSERT with a fresh row id; DELETE ... WHERE
Rows(d, table) == d.rows[table]
NextId(d, table) == d.sequence[table] + 1
Insert(d, table, row) ==
    [rows |-> [d.rows EXCEPT ![table] = @ \cup {row}],
     sequence |-> [d.sequence EXCEPT ![table] = row.id]]
Delete(d, table, gone) == [d EXCEPT !.rows[table] = @ \ gone]

-----------------------------------------------------------------------------
(* The engine and its two operations.                                      *)

\* RecommendationEngine.__init__, and no call made yet
EngineInit ==
    /\ is_fitted = FALSE
    /\ vocabulary = {}
    /\ idf = <<>>
    /\ built_profile = NoProfile
    /\ liked_papers = <<>>
    /\ op = "idle"
    /\ papers = <<>>
    /\ user_profile = NoProfile
    /\ preferred_categories = <<>>
    /\ keywords = <<>>
    /\ nows = <<>>
    /\ scored = <<>>
    /\ results = <<>>
    /\ raised = None
    /\ threads = <<>>
    /\ witnessed = [fits |-> 0, torn |-> FALSE]
    /\ previous = NoCall

Init ==
    /\ EngineInit
    /\ db = init_db
    /\ session = NoCall

\* variant: build_user_profile without its early return
NeverEmpty(liked) == FALSE

\* `if not liked_papers`
NoLikedPapers(liked) == liked = <<>>

\* build_user_profile(liked_papers).  fit_transform raises ValueError when
\* no term is left after tokenising (empty vocabulary).  The vocabulary is
\* cut to max_features=5000 terms, which the texts of this model never reach.
BuildUserProfile(liked) ==
    LET documents == [i \in 1..Len(liked) |-> Document(liked[i])]
        fitting == ~is_fitted
        vocab == IF fitting THEN FitVocabulary(documents) ELSE vocabulary
        idfs == IF fitting THEN FitIdf(documents) ELSE idf
        vectors == [i \in 1..Len(liked) |-> Transform(documents[i], vocab, idfs)]
    IN  /\ op = "idle"
        /\ UNCHANGED <<threads, witnessed, previous>>
        /\ UNCHANGED store_vars
        /\ op' = "build_user_profile"
        /\ liked_papers' = liked
        /\ papers' = <<>>
        /\ user_profile' = NoProfile
        /\ preferred_categories' = <<>>
        /\ keywords' = <<>>
        /\ nows' = <<>>
        /\ scored' = <<>>
        /\ results' = <<>>
        /\ IF NoLikedPapers(liked)
           THEN /\ built_profile' = NoProfile
                /\ raised' = None
                /\ UNCHANGED <<is_fitted, vocabulary, idf>>
           ELSE IF fitting /\ vocab = {}
           THEN /\ raised' = "ValueError"
                /\ UNCHANGED <<is_fitted, vocabulary, idf, built_profile>>
           ELSE /\ is_fitted' = TRUE
                /\ vocabulary' = vocab
                /\ idf' = idfs
                /\ built_profile' = Ndarray(MeanVector(vectors, vocab))
                /\ raised' = None

\* variant: a paper without a timestamp scored like any other (its age taken
\* from whatever stands in for the timestamp)
NoneRaises(ps) == FALSE

\* datetime.now() - paper.published raises TypeError when published is None
Undated(ps) == \E i \in 1..Len(ps) : ps[i].published = NoTimestamp

\* variant: score_papers scoring against the profile the engine built last
\* instead of the one it is passed
ScorePapersWithHeldProfile(ps, prof, cats, kws, ns) ==
    /\ op = "idle"
    /\ op' = "score_papers"
    /\ papers' = ps
    /\ user_profile' = prof
    /\ preferred_categories' = cats
    /\ keywords' = kws
    /\ nows' = ns
    /\ IF Undated(ps)
       THEN /\ raised' = "TypeError"
            /\ scored' = <<>>
            /\ results' = <<>>
       ELSE /\ raised' = None
            /\ scored' = Scored(ps, built_profile, cats, kws, ns, is_fitted, vocabulary, idf)
            /\ results' = SortByScore(scored')
    /\ built_profile' = NoProfile
    /\ UNCHANGED <<is_fitted, vocabulary, idf, liked_papers, threads, witnessed, previous>>
    /\ UNCHANGED store_vars

\* score_papers(papers, user_profile, preferred_categories, keywords), the
\* clock reading ns[i] being the datetime.now() taken for papers[i].  The
\* profile is a local of get_daily_papers, gone once the scores are back.
ScorePapers(ps, prof, cats, kws, ns) ==
    /\ op = "idle"
    /\ op' = "score_papers"
    /\ papers' = ps
    /\ user_profile' = prof
    /\ preferred_categories' = cats
    /\ keywords' = kws
    /\ nows' = ns
    /\ IF Undated(ps)
       THEN /\ raised' = "TypeError"
            /\ scored' = <<>>
            /\ results' = <<>>
       ELSE /\ raised' = None
            /\ scored' = Scored(ps, prof, cats, kws, ns, is_fitted, vocabulary, idf)
            /\ results' = SortByScore(scored')
    /\ built_profile' = NoProfile
    /\ UNCHANGED <<is_fitted, vocabulary, idf, liked_papers, threads, witnessed, previous>>
    /\ UNCHANGED store_vars

\* the caller takes the returned value (or the exception) and drops the
\* call's arguments
Return ==
    /\ op # "idle"
    /\ op' = "idle"
    /\ papers' = <<>>
    /\ user_profile' = NoProfile
    /\ preferred_categories' = <<>>
    /\ keywords' = <<>>
    /\ nows' = <<>>
    /\ scored' = <<>>
    /\ results' = <<>>
    /\ raised' = None
    /\ liked_papers' = <<>>
    /\ UNCHANGED <<is_fitted, vocabulary, idf, built_profile, threads, witnessed, previous>>
    /\ UNCHANGED store_vars

Next ==
    \/ Return
    \/ /\ op = "idle"
       /\ \E liked \in LikedLists : BuildUserProfile(liked)
    \/ /\ op = "idle"
       /\ \E ps \in PaperLists \cup UndatedLists, prof \in Profiles :
            \E pref \in PreferencesFor(prof), ns \in ClockReadings(Len(ps)) :
                ScorePapers(ps, prof, pref[1], pref[2], ns)

Spec == Init /\ [][Next]_vars

-----------------------------------------------------------------------------
(* Two get_daily_papers calls on the singleton engine, each on a worker    *)
(* thread of its own (DailyPane._do_fetch is @work(thread=True); a second  *)
(* press of Fetch starts a second thread while the first still runs).      *)
(* Each thread runs build_user_profile and then score_papers.  The code    *)
(* takes no lock, so the threads interleave at every read and write of the *)
(* engine: the test of _is_fitted, fit_transform's write of vocabulary_,   *)
(* its write of idf_, the write of _is_fitted, and the reads of transform. *)

Threads == {1, 2}

\* the liked papers a thread's call finds
ThreadLikedLists == {<<>>, <<PaperX>>, <<PaperV>>}

Thread(pc, liked, profile, exc) == [pc |-> pc, liked |-> liked, profile |-> profile, raised |-> exc]

Documents(liked) == [i \in 1..Len(liked) |-> Document(liked[i])]

\* vocabulary_ is written and idf_ is not yet
MidFit(t) == threads[t].pc = "fit_idf"

\* transform, called by thread t, reads vocabulary_ and idf_ while another
\* thread is between its two writes
ReadsHalfFitted(t) == \E u \in Threads \ {t} : MidFit(u)

ThreadsInit ==
    /\ is_fitted = FALSE
    /\ vocabulary = {}
    /\ idf = <<>>
    /\ built_profile = NoProfile
    /\ liked_papers = <<>>
    /\ op = "idle"
    /\ papers = <<>>
    /\ user_profile = NoProfile
    /\ preferred_categories = <<>>
    /\ keywords = <<>>
    /\ nows = <<>>
    /\ scored = <<>>
    /\ results = <<>>
    /\ raised = None
    /\ threads \in [Threads -> {Thread("build_user_profile", l, NoProfile, None) : l \in ThreadLikedLists}]
    /\ witnessed = [fits |-> 0, torn |-> FALSE]
    /\ previous = NoCall
    /\ db = init_db
    /\ session = NoCall

\* build_user_profile up to `if not self._is_fitted`
TestFitted(t) ==
    /\ threads[t].pc = "build_user_profile"
    /\ threads' = [threads EXCEPT ![t].pc =
                      IF threads[t].liked = <<>> THEN "score_papers"
                      ELSE IF ~is_fitted THEN "fit_vocabulary"
                      ELSE "transform"]
    /\ UNCHANGED <<is_fitted, vocabulary, idf, witnessed>>
    /\ UNCHANGED call_vars
    /\ UNCHANGED store_vars

\* fit_transform, first half: the vocabulary of this thread's documents
\* replaces vocabulary_
FitWritesVocabulary(t) ==
    /\ threads[t].pc = "fit_vocabulary"
    /\ vocabulary' = FitVocabulary(Documents(threads[t].liked))
    /\ witnessed' = [witnessed EXCEPT !.fits = @ + 1]
    /\ threads' = [threads EXCEPT ![t].pc = "fit_idf"]
    /\ UNCHANGED <<is_fitted, idf>>
    /\ UNCHANGED call_vars
    /\ UNCHANGED store_vars

\* fit_transform, second half: idf_ is written and the rows of this
\* thread's documents are returned
FitWritesIdf(t) ==
    LET documents == Documents(threads[t].liked)
        vocab == FitVocabulary(documents)
        idfs == FitIdf(documents)
        vectors == [i \in 1..Len(documents) |-> Transform(documents[i], vocab, idfs)]
    IN  /\ threads[t].pc = "fit_idf"
        /\ idf' = idfs
        /\ threads' = [threads EXCEPT ![t].pc = "set_fitted",
                                      ![t].profile = Ndarray(MeanVector(vectors, vocab))]
        /\ UNCHANGED <<is_fitted, vocabulary, witnessed>>
        /\ UNCHANGED call_vars
        /\ UNCHANGED store_vars

\* self._is_fitted = True, and build_user_profile returns
SetFitted(t) ==
    /\ threads[t].pc = "set_fitted"
    /\ is_fitted' = TRUE
    /\ threads' = [threads EXCEPT ![t].pc = "score_papers"]
    /\ UNCHANGED <<vocabulary, idf, witnessed>>
    /\ UNCHANGED call_vars
    /\ UNCHANGED store_vars

\* vectorizer.transform(documents) of build_user_profile on a fitted engine.
\* A read of a half-written model can raise or return rows of any content.
TransformLiked(t) ==
    LET documents == Documents(threads[t].liked)
        vectors == [i \in 1..Len(documents) |-> Transform(documents[i], vocabulary, idf)]
    IN  /\ threads[t].pc = "transform"
        /\ IF ReadsHalfFitted(t)
           THEN /\ witnessed' = [witnessed EXCEPT !.torn = TRUE]
                /\ \/ threads' = [threads EXCEPT ![t].pc = "done", ![t].raised = "ValueError"]
                   \/ threads' = [threads EXCEPT ![t].pc = "score_papers",
                                                 ![t].profile = Ndarray([term \in vocabulary |-> 0])]
           ELSE /\ threads' = [threads EXCEPT ![t].pc = "score_papers",
                                              ![t].profile = Ndarray(MeanVector(vectors, vocabulary))]
                /\ UNCHANGED witnessed
        /\ UNCHANGED <<is_fitted, vocabulary, idf>>
        /\ UNCHANGED call_vars
        /\ UNCHANGED store_vars

\* score_papers' projection of a candidate: skipped without a profile or on
\* an unfitted engine; cosine_similarity raises ValueError when the profile
\* and the row differ in length (the vocabulary was replaced meanwhile)
ProjectCandidate(t) ==
    /\ threads[t].pc = "score_papers"
    /\ IF threads[t].profile # NoProfile /\ is_fitted
       THEN /\ witnessed' = [witnessed EXCEPT !.torn = @ \/ ReadsHalfFitted(t)]
            /\ threads' = [threads EXCEPT
                  ![t].pc = "done",
                  ![t].raised = IF DOMAIN threads[t].profile.values = vocabulary
                                THEN None ELSE "ValueError"]
       ELSE /\ threads' = [threads EXCEPT ![t].pc = "done"]
            /\ UNCHANGED witnessed
    /\ UNCHANGED <<is_fitted, vocabulary, idf>>
    /\ UNCHANGED call_vars
    /\ UNCHANGED store_vars

ThreadsNext ==
    \E t \in Threads :
        \/ TestFitted(t)
        \/ FitWritesVocabulary(t)
        \/ FitWritesIdf(t)
        \/ SetFitted(t)
        \/ TransformLiked(t)
        \/ ProjectCandidate(t)

ThreadsSpec == ThreadsInit /\ [][ThreadsNext]_vars

-----------------------------------------------------------------------------
(* score_papers called, and then called again with the same arguments: the *)
(* second call takes its own clock readings.  build_user_profile calls may *)
(* come before and between.                                                *)

\* the candidates of the compared calls: a paper that turns two days old on
\* the second tick, one without terms that turns 30 days old, one published
\* after the first tick
RepeatPaperLists == SeqsUpTo({PaperX, PaperW, PaperU}, MaxPapers)

RepeatPreferences == {<<<<>>, <<>>>>, <<SampleCategories, SampleKeywords>>}

Call ==
    [papers |-> papers, user_profile |-> user_profile,
     preferred_categories |-> preferred_categories, keywords |-> keywords,
     is_fitted |-> is_fitted, vocabulary |-> vocabulary, idf |-> idf,
     nows |-> nows, results |-> results]

\* the caller takes the returned value and keeps the scores of a call that
\* returned a list
ReturnAndRemember ==
    /\ op # "idle"
    /\ op' = "idle"
    /\ previous' = IF op = "score_papers" /\ raised = None THEN Call ELSE previous
    /\ papers' = <<>>
    /\ user_profile' = NoProfile
    /\ preferred_categories' = <<>>
    /\ keywords' = <<>>
    /\ nows' = <<>>
    /\ scored' = <<>>
    /\ results' = <<>>
    /\ raised' = None
    /\ liked_papers' = <<>>
    /\ UNCHANGED <<is_fitted, vocabulary, idf, built_profile, threads, witnessed>>
    /\ UNCHANGED store_vars

\* the first score_papers call
FirstCall ==
    /\ previous = NoCall
    /\ \E ps \in RepeatPaperLists, prof \in Profiles, pref \in RepeatPreferences :
         \E ns \in ClockReadings(Len(ps)) :
             ScorePapers(ps, prof, pref[1], pref[2], ns)

\* the profile is none, or is not looked at, or has the engine's vocabulary
Projectable(prof) ==
    IF prof = NoProfile THEN TRUE
    ELSE IF ~is_fitted THEN TRUE
    ELSE DOMAIN prof.values = vocabulary

\* score_papers called again with the arguments of the call before
SameCallAgain ==
    /\ previous # NoCall
    /\ Projectable(previous.user_profile)
    /\ \E ns \in ClockReadings(Len(previous.papers)) :
         ScorePapers(previous.papers, previous.user_profile,
                     previous.preferred_categories, previous.keywords, ns)

RepeatNext ==
    \/ ReturnAndRemember
    \/ /\ op = "idle"
       /\ \E liked \in LikedLists : BuildUserProfile(liked)
    \/ /\ op = "idle"
       /\ FirstCall
    \/ /\ op = "idle"
       /\ SameCallAgain

RepeatSpec == Init /\ [][RepeatNext]_vars

-----------------------------------------------------------------------------
(* What a finished score_papers call shows: its arguments, the clock       *)
(* readings, the list before the sort (scored) and the returned list.      *)

\* a score_papers call, and one that returned its list
ScoreCall == op = "score_papers"
Scoring == ScoreCall /\ raised = None

Dated == \A i \in 1..Len(papers) : papers[i].published # NoTimestamp

Indices == 1..Len(papers)

Occurrences(seq, x) == Cardinality({i \in 1..Len(seq) : seq[i] = x})

ResultPapers == [k \in 1..Len(results) |-> results[k].paper]

\* the age in whole days that paper i had when its clock reading was taken
WholeDaysOld(i) == (nows[i] - papers[i].published) \div Day

\* the part of paper i's score that is left when the other three terms are
\* taken away
CategoryPart(i) ==
    RSub(scored[i].score,
         RAdd(RAdd(ContentTerm(papers[i], user_profile, is_fitted, vocabulary, idf),
                   KeywordTerm(papers[i], keywords)),
              RecencyTerm(papers[i], nows[i])))

KeywordPart(i) ==
    RSub(scored[i].score,
         RAdd(RAdd(ContentTerm(papers[i], user_profile, is_fitted, vocabulary, idf),
                   CategoryTerm(papers[i], preferred_categories)),
              RecencyTerm(papers[i], nows[i])))

RecencyPart(i) ==
    RSub(scored[i].score,
         RAdd(RAdd(ContentTerm(papers[i], user_profile, is_fitted, vocabulary, idf),
                   CategoryTerm(papers[i], preferred_categories)),
              KeywordTerm(papers[i], keywords)))

\* the preferred-category entry for a tag, and the tags of a paper that are preferred
IsPreferred(tag) == \E j \in 1..Len(preferred_categories) : preferred_categories[j].category = tag
PriorityOf(tag) ==
    preferred_categories[CHOOSE j \in 1..Len(preferred_categories) :
                            preferred_categories[j].category = tag].priority
PreferredTags(i) == {t \in 1..Len(papers[i].categories) : IsPreferred(papers[i].categories[t])}
FirstPreferredTag(i) == papers[i].categories[Min(PreferredTags(i))]
MaxPreferredPriority == Max({preferred_categories[j].priority : j \in 1..Len(preferred_categories)})

\* S_recency of the specification for an age of d whole days
SRecency(d) == IF d < 30 THEN RSub(One, Rat(d, 30)) ELSE Zero

-----------------------------------------------------------------------------
(* C1: the list score_papers returns has the length of the candidate list  *)
(* and holds every candidate exactly as often as the candidate list does:  *)
(* no paper is dropped, duplicated or invented.                            *)
C1_Permutation ==
    Scoring =>
        /\ Len(results) = Len(papers)
        /\ \A p \in {papers[i] : i \in Indices} \cup {ResultPapers[k] : k \in 1..Len(results)} :
              Occurrences(ResultPapers, p) = Occurrences(papers, p)

\* a call with two or more candidates that come back in another order
C1_Witness == Scoring /\ Len(papers) >= 2 /\ ResultPapers # papers

(* C2: the returned scores are in non-increasing order.                    *)
C2_SortedDescending ==
    Scoring => \A k \in 1..(Len(results) - 1) : RLe(results[k + 1].score, results[k].score)

\* a call whose candidates were scored in strictly ascending order
C2_Witness ==
    /\ Scoring
    /\ Len(scored) >= 2
    /\ RLt(scored[1].score, scored[2].score)
    /\ Len(results) = Len(scored)

(* C3: the sort is stable: the returned list is the scored list rearranged *)
(* so that entries with equal scores keep the order the candidates came in.*)
Rearrangements(n) == {f \in [1..n -> 1..n] : \A a, b \in 1..n : f[a] = f[b] => a = b}

C3_StableSort ==
    Scoring =>
        /\ Len(results) = Len(scored)
        /\ \E f \in Rearrangements(Len(scored)) :
              /\ \A k \in 1..Len(results) : results[k] = scored[f[k]]
              /\ \A a, b \in 1..Len(results) :
                    (a < b /\ results[a].score = results[b].score) => f[a] < f[b]

\* a call in which two different candidates got the same score
C3_Witness ==
    /\ Scoring
    /\ \E a, b \in 1..Len(scored) :
          a < b /\ scored[a].score = scored[b].score /\ scored[a].paper # scored[b].paper

(* C4: the category term is category_weight * priority / maxPriority of the *)
(* first of the paper's tags, in the paper's own order, that is a preferred *)
(* category, counted once, and 0 when no tag is preferred.  (The quotient   *)
(* is stated where maxPriority > 0, as every priority >= 1 makes it.)       *)
C4_FirstMatchingCategory ==
    Scoring =>
        \A i \in Indices :
            /\ PreferredTags(i) = {} => CategoryPart(i) = Zero
            /\ (PreferredTags(i) # {} /\ MaxPreferredPriority > 0) =>
                  CategoryPart(i) =
                      RMul(Rat(2, 10), Rat(PriorityOf(FirstPreferredTag(i)), MaxPreferredPriority))

\* a paper whose second preferred tag has a higher priority than its first
C4_Witness ==
    /\ Scoring
    /\ \E i \in Indices :
          \E t \in PreferredTags(i) :
              /\ t > Min(PreferredTags(i))
              /\ PriorityOf(papers[i].categories[t]) > PriorityOf(FirstPreferredTag(i))
              /\ PriorityOf(FirstPreferredTag(i)) > 0

(* C5: the keyword term is keyword_weight times the sum of the weights of   *)
(* all keyword interests whose keyword occurs in the lower-cased            *)
(* title + " " + abstract.                                                  *)
Matching(i) ==
    {j \in 1..Len(keywords) : Contains(Lower(Document(papers[i])), keywords[j].keyword)}

RECURSIVE WeightSum(_)
WeightSum(js) ==
    IF js = {} THEN Zero
    ELSE LET j == CHOOSE x \in js : TRUE
         IN  RAdd(keywords[j].weight, WeightSum(js \ {j}))

C5_KeywordSum ==
    Scoring => \A i \in Indices : KeywordPart(i) = RMul(Rat(1, 10), WeightSum(Matching(i)))

\* a paper with upper-case text that matches two keywords of weights 1 and 1.5
C5_Witness ==
    /\ Scoring
    /\ \E i \in Indices :
          /\ Cardinality(Matching(i)) = 2
          /\ {keywords[j].weight : j \in Matching(i)} = {Rat(1, 1), Rat(3, 2)}
          /\ KeywordPart(i) = Rat(25, 100)
          /\ Lower(Document(papers[i])) # Document(papers[i])

(* C6: for a paper d >= 0 whole days old the recency term is                *)
(* recency_weight * (1 - d/30) when d < 30 and 0 when d >= 30: the full     *)
(* weight at day 0, half of it at day 15, nothing from day 30 on, and never *)
(* more for an older paper.                                                 *)
RECURSIVE RecencyPartsFrom(_)
RecencyPartsFrom(i) ==
    IF i > Len(papers) THEN <<>> ELSE <<RecencyPart(i)>> \o RecencyPartsFrom(i + 1)

C6_RecencyDecay ==
    Scoring =>
        \A part \in {RecencyPartsFrom(1)} :
            /\ \A i \in Indices :
                  WholeDaysOld(i) >= 0 =>
                      /\ part[i] = RMul(Rat(5, 100), SRecency(WholeDaysOld(i)))
                      /\ WholeDaysOld(i) = 0 => part[i] = Rat(5, 100)
                      /\ WholeDaysOld(i) = 15 => part[i] = Rat(25, 1000)
                      /\ WholeDaysOld(i) >= 30 => part[i] = Zero
            /\ \A i, j \in Indices :
                  (i # j /\ 0 <= WholeDaysOld(i) /\ WholeDaysOld(i) <= WholeDaysOld(j)) =>
                      RLe(part[j], part[i])

\* a call scoring a paper of day 0 and a paper of day 30
C6_Witness ==
    /\ Scoring
    /\ \E i, j \in Indices : WholeDaysOld(i) = 0 /\ WholeDaysOld(j) = 30

(* C7: the age is max(0, now - published) in whole days, so the recency     *)
(* term of every paper, one published after `now` included, is              *)
(* recency_weight * S_recency with S_recency in [0, 1], never above          *)
(* recency_weight.                                                           *)
ClampedDaysOld(i) == IF WholeDaysOld(i) < 0 THEN 0 ELSE WholeDaysOld(i)

C7_RecencyWithinWeight ==
    Scoring =>
        \A i \in Indices :
            /\ RecencyPart(i) = RMul(Rat(5, 100), SRecency(ClampedDaysOld(i)))
            /\ RLe(Zero, RecencyPart(i))
            /\ RLe(RecencyPart(i), Rat(5, 100))

(* C8: with user_profile = None, no preferred category and no keyword,      *)
(* every paper's score is exactly recency_weight * S_recency of that paper.  *)
C8_NoSignalScore ==
    (Scoring /\ user_profile = NoProfile /\ preferred_categories = <<>> /\ keywords = <<>>) =>
        \A i \in Indices :
            scored[i].score = RMul(Rat(5, 100), SRecency(ClampedDaysOld(i)))

(* C9: two papers of one call that are identical except for their           *)
(* categories, whose first preferred tags have priorities pA and pB, differ  *)
(* in score by exactly category_weight * (pA - pB) / maxPriority.            *)
SameButCategories(a, b) ==
    /\ papers[a].title = papers[b].title
    /\ papers[a].abstract = papers[b].abstract
    /\ papers[a].published = papers[b].published

C9_CategoryDifference ==
    Scoring =>
        \A a, b \in Indices :
            (/\ SameButCategories(a, b)
             /\ PreferredTags(a) # {}
             /\ PreferredTags(b) # {}
             /\ MaxPreferredPriority > 0) =>
                RSub(scored[a].score, scored[b].score) =
                    RMul(Rat(2, 10),
                         Rat(PriorityOf(FirstPreferredTag(a)) - PriorityOf(FirstPreferredTag(b)),
                             MaxPreferredPriority))

(* C10: with the default weights, preferred categories {hep-ph: 2,          *)
(* cs.AI: 1}, no keywords and no profile, X (categories [hep-ph], 1 day      *)
(* old) scores 0.2*(2/2) + 0.05*(1 - 1/30), Y (categories [cs.AI], 1 day     *)
(* old) scores 0.2*(1/2) + 0.05*(1 - 1/30), and X is returned before Y.      *)
EndToEnd(x, y) ==
    /\ Scoring
    /\ user_profile = NoProfile
    /\ keywords = <<>>
    /\ {preferred_categories[j] : j \in 1..Len(preferred_categories)} =
          {PreferredCategory("hep-ph", 2), PreferredCategory("cs.AI", 1)}
    /\ Len(preferred_categories) = 2
    /\ Len(papers) = 2
    /\ {x, y} = {1, 2}
    /\ papers[x].categories = <<"hep-ph">>
    /\ papers[y].categories = <<"cs.AI">>
    /\ WholeDaysOld(x) = 1
    /\ WholeDaysOld(y) = 1

C10_EndToEnd ==
    \A x, y \in 1..2 :
        EndToEnd(x, y) =>
            /\ scored[x].score = RAdd(RMul(Rat(2, 10), Rat(2, 2)),
                                      RMul(Rat(5, 100), RSub(One, Rat(1, 30))))
            /\ scored[y].score = RAdd(RMul(Rat(2, 10), Rat(1, 2)),
                                      RMul(Rat(5, 100), RSub(One, Rat(1, 30))))
            /\ results = <<scored[x], scored[y]>>

\* the scenario with Y passed first, so that the sort has to move X ahead
C10_Witness == EndToEnd(2, 1)

-----------------------------------------------------------------------------
(* The fitted state over a sequence of calls.                              *)

Building == op = "build_user_profile"

\* one step of the engine leaves a fitted vocabulary and its idf as they are
FittedStays == is_fitted => (is_fitted' /\ vocabulary' = vocabulary /\ idf' = idf)

\* only a build_user_profile call with liked papers fits
OnlyBuildFits == (~is_fitted /\ is_fitted') => (op' = "build_user_profile" /\ liked_papers' # <<>>)

\* score_papers leaves the fitted state alone
ScoreNeverFits == (op' = "score_papers") => UNCHANGED <<is_fitted, vocabulary, idf>>

\* a build_user_profile call with liked papers leaves the engine fitted
NonEmptyBuildFits == (op' = "build_user_profile" /\ liked_papers' # <<>>) => is_fitted'

(* C11: over any sequence of calls on one engine the vocabulary and idf     *)
(* are fitted at most once, by the first build_user_profile call with a     *)
(* non-empty liked list (so every such call leaves the engine fitted);      *)
(* later calls only project, score_papers never fits, and a fitted engine   *)
(* is never unfitted or refitted.                                           *)
C11_FittedOnceByFirstBuild ==
    [][FittedStays /\ OnlyBuildFits /\ ScoreNeverFits /\ NonEmptyBuildFits]_vars

\* the part of C11 that does not depend on which call fits
C11_FittedOnce == [][FittedStays /\ OnlyBuildFits /\ ScoreNeverFits]_vars

(* C12: with build_user_profile and score_papers running on two threads    *)
(* over the shared engine, at most one fit writes the vocabulary, and no   *)
(* projection reads a vocabulary that another thread is in the middle of   *)
(* fitting.                                                                *)
C12_OneFitNoHalfFittedRead == witnessed.fits <= 1 /\ ~witnessed.torn

\* the two halves of C12, each on its own
C12_AtMostOneFit == witnessed.fits <= 1
C12_NoHalfFittedRead == ~witnessed.torn

(* C13: build_user_profile called with an empty liked list returns None,    *)
(* raises nothing and leaves the fitted state (is_fitted, vocabulary, idf)  *)
(* as it was.                                                               *)
C13_EmptyLikesGiveNone ==
    [][(op' = "build_user_profile" /\ liked_papers' = <<>>) =>
          /\ built_profile' = NoProfile
          /\ raised' = None
          /\ UNCHANGED <<is_fitted, vocabulary, idf>>]_vars

\* the call made on an engine that was never fitted
C13_Witness ==
    Building /\ liked_papers = <<>> /\ ~is_fitted /\ built_profile = NoProfile /\ raised = None

\* the part of paper i's score that is left when the category, keyword and
\* recency terms are taken away
ContentPart(i) ==
    RSub(scored[i].score,
         RAdd(RAdd(CategoryTerm(papers[i], preferred_categories),
                   KeywordTerm(papers[i], keywords)),
              RecencyTerm(papers[i], nows[i])))

(* C14: the content term is 0 for every paper when user_profile is None,    *)
(* and when a profile is passed to an engine that was never fitted; no      *)
(* error is raised and the score is the sum of the other three terms.       *)
C14_NoContentWithoutProfileOrFit ==
    (ScoreCall /\ Dated /\ (user_profile = NoProfile \/ ~is_fitted)) =>
        /\ raised = None
        /\ Len(scored) = Len(papers)
        /\ \A i \in Indices : ContentPart(i) = Zero

\* a profile passed to a never-fitted engine, with a candidate that has the
\* profile's text and a category, keyword-free score above 0
C14_Witness ==
    /\ Scoring
    /\ user_profile # NoProfile
    /\ ~is_fitted
    /\ \E i \in Indices :
          /\ Document(papers[i]) = Document(PaperX)
          /\ RLt(Zero, scored[i].score)

(* C15: build_user_profile and score_papers never raise because of empty    *)
(* or stop-word-only text: the call completes, and a candidate without any  *)
(* term gets a content term of 0.                                           *)
C15_NeverRaisesOnEmptyText ==
    /\ (Building \/ (ScoreCall /\ Dated)) => raised = None
    /\ Scoring => \A i \in Indices :
                     Terms(Document(papers[i])) = {} => ContentPart(i) = Zero

\* the same for score_papers alone
C15_ScoreNeverRaises ==
    (ScoreCall /\ Dated) =>
        /\ raised = None
        /\ \A i \in Indices : Terms(Document(papers[i])) = {} => ContentPart(i) = Zero

\* a rational <<n, d>> is a finite number when its denominator is positive
Finite(q) == q[2] > 0

ZeroVector(v) == \A t \in DOMAIN v : v[t] = 0

\* the candidate has no term of the fitted vocabulary, so its row is all zero
NoVocabularyTerm(i) == Terms(Document(papers[i])) \cap vocabulary = {}

(* C16: every score score_papers returns is a finite number; when the       *)
(* candidate's row or the profile is the zero vector the cosine similarity  *)
(* is 0, so the content term is 0.                                          *)
C16_FiniteScores ==
    Scoring =>
        \A i \in Indices :
            /\ Finite(scored[i].score)
            /\ (/\ user_profile # NoProfile
                /\ is_fitted
                /\ (NoVocabularyTerm(i) \/ ZeroVector(user_profile.values))) =>
                    ContentPart(i) = Zero

\* an all-zero profile (built from a stop-word-only paper on a fitted engine)
\* scored against a candidate that has vocabulary terms, and a term-free
\* candidate scored in the same call
C16_Witness ==
    /\ Scoring
    /\ is_fitted
    /\ user_profile # NoProfile
    /\ ZeroVector(user_profile.values)
    /\ \E i, j \in Indices : ~NoVocabularyTerm(i) /\ NoVocabularyTerm(j)

(* C17: when a candidate has no published timestamp score_papers fails with *)
(* an error and returns no list at all, not even for the candidates that    *)
(* have one; no timestamp and no recency value is made up.                  *)
C17_UndatedPaperFails ==
    (ScoreCall /\ ~Dated) => (raised = "TypeError" /\ scored = <<>> /\ results = <<>>)

\* a call whose first candidate has a timestamp and whose second has none
C17_Witness ==
    /\ ScoreCall
    /\ Len(papers) = 2
    /\ papers[1].published # NoTimestamp
    /\ papers[2].published = NoTimestamp
    /\ raised = "TypeError"

\* S_category of paper i lies in (0, 1] and is priority / maxPriority of the
\* first preferred tag (stated without dividing by maxPriority)
NormalizedShare(i) ==
    /\ RLt(Zero, CategoryPart(i))
    /\ RLe(CategoryPart(i), category_weight)
    /\ RMul(CategoryPart(i), Rat(MaxPreferredPriority, 1)) =
          RMul(category_weight, Rat(PriorityOf(FirstPreferredTag(i)), 1))

(* C18: for every paper and every preferred-category list S_category is     *)
(* priority / maxPriority of the matched category and lies in (0, 1], or is *)
(* 0 when nothing matches; with no preferred category it is 0 for every     *)
(* paper.                                                                   *)
C18_CategoryShareInUnitInterval ==
    Scoring =>
        \A i \in Indices :
            /\ PreferredTags(i) = {} => CategoryPart(i) = Zero
            /\ PreferredTags(i) # {} => NormalizedShare(i)
            /\ preferred_categories = <<>> => CategoryPart(i) = Zero

\* the same for the lists whose priorities are all 1 or more
C18_WithPositivePriorities ==
    (Scoring /\ \A j \in 1..Len(preferred_categories) : preferred_categories[j].priority >= 1) =>
        \A i \in Indices :
            /\ PreferredTags(i) = {} => CategoryPart(i) = Zero
            /\ PreferredTags(i) # {} => NormalizedShare(i)
            /\ preferred_categories = <<>> => CategoryPart(i) = Zero

\* the call at hand has the arguments of the call before and finds the
\* engine in the same fitted state
SameArguments ==
    /\ Scoring
    /\ previous # NoCall
    /\ papers = previous.papers
    /\ user_profile = previous.user_profile
    /\ preferred_categories = previous.preferred_categories
    /\ keywords = previous.keywords
    /\ is_fitted = previous.is_fitted
    /\ vocabulary = previous.vocabulary
    /\ idf = previous.idf

ProfileOfAlone(l) ==
    Ndarray(MeanVector(<<Transform(Document(l),
                                   FitVocabulary(<<Document(l)>>),
                                   FitIdf(<<Document(l)>>))>>,
                       FitVocabulary(<<Document(l)>>)))

\* the engine was fitted by build_user_profile([l]) and the call at hand
\* scores against the profile that call returned
ScoringAgainstOwnProfile(l) ==
    /\ Scoring
    /\ is_fitted
    /\ vocabulary = FitVocabulary(<<Document(l)>>)
    /\ idf = FitIdf(<<Document(l)>>)
    /\ user_profile = ProfileOfAlone(l)

OtherTerms(i) ==
    RAdd(RAdd(CategoryTerm(papers[i], preferred_categories),
              KeywordTerm(papers[i], keywords)),
         RecencyTerm(papers[i], nows[i]))

(* C20: with a profile built from a single liked paper on a fresh engine,   *)
(* scoring that same paper gives S_content = 1, the largest there is, so    *)
(* its content term is content_weight; a paper sharing terms with the liked *)
(* paper has a positive content term and one sharing none has 0, so with    *)
(* the other terms equal the first scores strictly higher.                  *)
C20_OwnProfileGivesFullSimilarity ==
    \A l \in {PaperX, PaperV} :
        ScoringAgainstOwnProfile(l) =>
            /\ \A i \in Indices :
                  /\ Document(papers[i]) = Document(l) => ContentPart(i) = Rat(5, 10)
                  /\ RLe(ContentPart(i), Rat(5, 10))
                  /\ ~NoVocabularyTerm(i) => RLt(Zero, ContentPart(i))
                  /\ NoVocabularyTerm(i) => ContentPart(i) = Zero
            /\ \A i, j \in Indices :
                  (~NoVocabularyTerm(i) /\ NoVocabularyTerm(j) /\ OtherTerms(i) = OtherTerms(j)) =>
                      RLt(scored[j].score, scored[i].score)

\* the liked paper itself scored next to a paper that shares some of its
\* terms and has a smaller content term
C20_Witness ==
    \E l \in {PaperX, PaperV} :
        /\ ScoringAgainstOwnProfile(l)
        /\ \E i, j \in Indices :
              /\ papers[i] = l
              /\ ~NoVocabularyTerm(j)
              /\ RLt(ContentPart(j), ContentPart(i))

\* a paper sharing terms and a paper sharing none, equal in the other terms
C20_SharedAboveUnshared ==
    \E l \in {PaperX, PaperV} :
        /\ ScoringAgainstOwnProfile(l)
        /\ \E i, j \in Indices :
              /\ ~NoVocabularyTerm(i)
              /\ NoVocabularyTerm(j)
              /\ OtherTerms(i) = OtherTerms(j)

-----------------------------------------------------------------------------
(* services/preference_service.py on the database: paper interactions.     *)
(* Each service call opens a connection, runs its statements in one        *)
(* transaction and commits.  CURRENT_TIMESTAMP is the clock reading of the *)
(* insert; the clock does not run backwards.                               *)

MaxRowId == 4    \* largest row id a table hands out
MaxTime == 2     \* last clock reading of the database's CURRENT_TIMESTAMP

ArxivIds == {"2401.00001", "2401.00002"}

\* core/models.py InteractionType
INTERESTING == "interesting"
NOT_INTERESTING == "not_interesting"

InteractionRow(id, arxiv_id, interaction_type, created_at) ==
    [id |-> id, arxiv_id |-> arxiv_id, interaction_type |-> interaction_type,
     created_at |-> created_at]

InteractionsOf(d, arxiv_id) == {r \in Rows(d, "paper_interactions") : r.arxiv_id = arxiv_id}

\* DELETE FROM paper_interactions WHERE arxiv_id = ? AND interaction_type = ?
DeleteInteraction(d, arxiv_id, interaction_type) ==
    Delete(d, "paper_interactions",
           {r \in InteractionsOf(d, arxiv_id) : r.interaction_type = interaction_type})

\* INSERT OR REPLACE INTO paper_interactions (arxiv_id, interaction_type):
\* the row that UNIQUE(arxiv_id, interaction_type) conflicts with is deleted
\* and a row with a fresh id is inserted
InsertOrReplaceInteraction(d, arxiv_id, interaction_type, now) ==
    Insert(DeleteInteraction(d, arxiv_id, interaction_type), "paper_interactions",
           InteractionRow(NextId(d, "paper_interactions"), arxiv_id, interaction_type, now))

\* variant: mark_interesting without its DELETE of the not_interesting row
mark_interesting_keeping_dislike(d, arxiv_id, now) ==
    InsertOrReplaceInteraction(d, arxiv_id, INTERESTING, now)

\* the database after mark_interesting(arxiv_id) has committed
mark_interesting(d, arxiv_id, now) ==
    InsertOrReplaceInteraction(DeleteInteraction(d, arxiv_id, NOT_INTERESTING),
                               arxiv_id, INTERESTING, now)

\* the database after mark_not_interesting(arxiv_id) has committed
mark_not_interesting(d, arxiv_id, now) ==
    InsertOrReplaceInteraction(DeleteInteraction(d, arxiv_id, INTERESTING),
                               arxiv_id, NOT_INTERESTING, now)

\* get_interaction(arxiv_id): fetchone() of the rows of the paper, None
\* without a row; which row comes first is SQLite's choice
get_interaction(d, arxiv_id) ==
    IF InteractionsOf(d, arxiv_id) = {} THEN {None}
    ELSE {r.interaction_type : r \in InteractionsOf(d, arxiv_id)}

\* the rows of a set in the orders ORDER BY created_at DESC allows (rows of
\* one clock reading come in either order)
NewestFirst(rows) ==
    {f \in [1..Cardinality(rows) -> rows] :
        /\ \A i, j \in 1..Cardinality(rows) : f[i] = f[j] => i = j
        /\ \A i, j \in 1..Cardinality(rows) : i < j => f[i].created_at >= f[j].created_at}

\* get_interesting_papers(): the lists it can return
get_interesting_papers(d) ==
    {[k \in 1..Len(f) |-> f[k].arxiv_id] :
        f \in NewestFirst({r \in Rows(d, "paper_interactions") :
                              r.interaction_type = INTERESTING})}

\* a preference-service call: what was called, with what, what came back,
\* the latest mark call per paper so far, and the clock
InteractionCall(call, arxiv_id, returned, latest, clock) ==
    [call |-> call, arxiv_id |-> arxiv_id, returned |-> returned, latest |-> latest,
     clock |-> clock]

\* the clock readings a call made now can take
ClockFrom(clock) == {t \in {clock, clock + 1} : t <= MaxTime}

InteractionInit ==
    /\ EngineInit
    /\ db = init_db
    /\ session = InteractionCall("idle", None, None, [a \in ArxivIds |-> None], 0)

MarkInteresting(arxiv_id) ==
    /\ NextId(db, "paper_interactions") <= MaxRowId
    /\ \E now \in ClockFrom(session.clock) :
         /\ db' = mark_interesting(db, arxiv_id, now)
         /\ session' = InteractionCall("mark_interesting", arxiv_id, None,
                                       [session.latest EXCEPT ![arxiv_id] = INTERESTING], now)
    /\ UNCHANGED engine_vars

MarkNotInteresting(arxiv_id) ==
    /\ NextId(db, "paper_interactions") <= MaxRowId
    /\ \E now \in ClockFrom(session.clock) :
         /\ db' = mark_not_interesting(db, arxiv_id, now)
         /\ session' = InteractionCall("mark_not_interesting", arxiv_id, None,
                                       [session.latest EXCEPT ![arxiv_id] = NOT_INTERESTING],
                                       now)
    /\ UNCHANGED engine_vars

GetInteraction(arxiv_id) ==
    /\ \E returned \in get_interaction(db, arxiv_id) :
         session' = InteractionCall("get_interaction", arxiv_id, returned, session.latest,
                                    session.clock)
    /\ UNCHANGED <<db>>
    /\ UNCHANGED engine_vars

GetInterestingPapers ==
    /\ \E returned \in get_interesting_papers(db) :
         session' = InteractionCall("get_interesting_papers", None, returned, session.latest,
                                    session.clock)
    /\ UNCHANGED <<db>>
    /\ UNCHANGED engine_vars

InteractionNext ==
    \/ \E arxiv_id \in ArxivIds : MarkInteresting(arxiv_id)
    \/ \E arxiv_id \in ArxivIds : MarkNotInteresting(arxiv_id)
    \/ \E arxiv_id \in ArxivIds : GetInteraction(arxiv_id)
    \/ GetInterestingPapers

InteractionSpec == InteractionInit /\ [][InteractionNext]_vars

Elements(seq) == {seq[k] : k \in 1..Len(seq)}

(* C21: after any sequence of mark_interesting and mark_not_interesting     *)
(* calls each paper has at most one interaction record, get_interaction    *)
(* returns the type of the latest mark call for the paper (None when there *)
(* was none), and get_interesting_papers holds a paper, once, exactly when *)
(* its latest mark call was mark_interesting.                              *)
C21_LatestMarkWins ==
    /\ \A a \in ArxivIds :
          /\ Cardinality(InteractionsOf(db, a)) <= 1
          /\ get_interaction(db, a) = {session.latest[a]}
    /\ \A liked \in get_interesting_papers(db) :
          /\ Elements(liked) = {a \in ArxivIds : session.latest[a] = INTERESTING}
          /\ Len(liked) = Cardinality(Elements(liked))
    /\ session.call = "get_interaction" => session.returned = session.latest[session.arxiv_id]
    /\ session.call = "get_interesting_papers" =>
          Elements(session.returned) = {a \in ArxivIds : session.latest[a] = INTERESTING}

\* a paper that was liked, then disliked, then asked about, while the other
\* paper is liked
C21_Witness ==
    /\ session.call = "get_interaction"
    /\ session.returned = NOT_INTERESTING
    /\ \E r \in InteractionsOf(db, session.arxiv_id) : r.id >= 2
    /\ \E a \in ArxivIds \ {session.arxiv_id} : session.latest[a] = INTERESTING

-----------------------------------------------------------------------------
(* services/preference_service.py on the database: preferred categories.   *)

CategoryRow(id, category, priority, added_at) ==
    [id |-> id, category |-> category, priority |-> priority, added_at |-> added_at]

CategoryRowsOf(d, category) == {r \in Rows(d, "preferred_categories") : r.category = category}

\* variant: INSERT OR IGNORE, the row of an earlier add left as it is
add_category_ignoring_conflict(d, category, priority, now) ==
    IF CategoryRowsOf(d, category) = {}
    THEN Insert(d, "preferred_categories",
                CategoryRow(NextId(d, "preferred_categories"), category, priority, now))
    ELSE d

\* INSERT INTO preferred_categories (category, priority) VALUES (?, ?)
\* ON CONFLICT(category) DO UPDATE SET priority = ?
add_category(d, category, priority, now) ==
    IF CategoryRowsOf(d, category) = {}
    THEN Insert(d, "preferred_categories",
                CategoryRow(NextId(d, "preferred_categories"), category, priority, now))
    ELSE [d EXCEPT !.rows["preferred_categories"] =
             {IF r.category = category THEN [r EXCEPT !.priority = priority] ELSE r : r \in @}]

\* DELETE FROM preferred_categories WHERE category = ?
remove_category(d, category) == Delete(d, "preferred_categories", CategoryRowsOf(d, category))

\* the rows of a set in the orders ORDER BY priority DESC allows
HighestFirst(rows) ==
    {f \in [1..Cardinality(rows) -> rows] :
        /\ \A i, j \in 1..Cardinality(rows) : f[i] = f[j] => i = j
        /\ \A i, j \in 1..Cardinality(rows) : i < j => f[i].priority >= f[j].priority}

\* get_categories(): the lists it can return
get_categories(d) ==
    {[k \in 1..Len(f) |-> PreferredCategory(f[k].category, f[k].priority)] :
        f \in HighestFirst(Rows(d, "preferred_categories"))}

\* a category call: what was called, with what, what came back, and the
\* latest call per category before and after it
Removed == [present |-> FALSE]
Added(priority) == [present |-> TRUE, priority |-> priority]

CategoryCall(call, category, returned, before, latest, clock) ==
    [call |-> call, category |-> category, returned |-> returned, before |-> before,
     latest |-> latest, clock |-> clock]

CategoryInit ==
    /\ EngineInit
    /\ db = init_db
    /\ session = CategoryCall("idle", None, None, [c \in PreferredNames |-> Removed],
                              [c \in PreferredNames |-> Removed], 0)

AddCategory(category, priority) ==
    /\ CategoryRowsOf(db, category) = {} => NextId(db, "preferred_categories") <= MaxRowId
    /\ \E now \in ClockFrom(session.clock) :
         /\ db' = add_category(db, category, priority, now)
         /\ session' = CategoryCall("add_category", category,
                                    CHOOSE r \in CategoryRowsOf(db', category) : TRUE,
                                    session.latest,
                                    [session.latest EXCEPT ![category] = Added(priority)], now)
    /\ UNCHANGED engine_vars

RemoveCategory(category) ==
    /\ db' = remove_category(db, category)
    /\ session' = CategoryCall("remove_category", category,
                               CategoryRowsOf(db, category) # {},
                               session.latest,
                               [session.latest EXCEPT ![category] = Removed], session.clock)
    /\ UNCHANGED engine_vars

GetCategories ==
    /\ \E returned \in get_categories(db) :
         session' = CategoryCall("get_categories", None, returned, session.latest,
                                 session.latest, session.clock)
    /\ UNCHANGED <<db>>
    /\ UNCHANGED engine_vars

CategoryNext ==
    \/ \E category \in PreferredNames, priority \in Priorities : AddCategory(category, priority)
    \/ \E category \in PreferredNames : RemoveCategory(category)
    \/ GetCategories

CategorySpec == CategoryInit /\ [][CategoryNext]_vars

EntriesOf(list, category) == {k \in 1..Len(list) : list[k].category = category}

(* C22: after any sequence of add_category and remove_category calls       *)
(* get_categories holds at most one entry per category; a category is in   *)
(* it exactly when its latest call was add_category, with the priority of  *)
(* that add; remove_category returns True exactly when the category was    *)
(* present.                                                                *)
C22_LatestCategoryCallWins ==
    /\ \A list \in get_categories(db) :
          \A c \in PreferredNames :
              /\ Cardinality(EntriesOf(list, c)) <= 1
              /\ EntriesOf(list, c) # {} <=> session.latest[c].present
              /\ \A k \in EntriesOf(list, c) : list[k].priority = session.latest[c].priority
    /\ session.call = "remove_category" =>
          (session.returned <=> session.before[session.category].present)
    /\ session.call = "add_category" =>
          /\ session.returned.category = session.category
          /\ session.returned.priority = session.latest[session.category].priority

\* a category added again with another priority while it is present, after
\* a category was removed
C22_Witness ==
    /\ session.call = "add_category"
    /\ db.sequence["preferred_categories"] > Cardinality(Rows(db, "preferred_categories"))
    /\ session.before[session.category].present
    /\ session.before[session.category] # session.latest[session.category]

-----------------------------------------------------------------------------
(* services/preference_service.py on the database: keyword interests.      *)

\* the keywords a caller types: "ml" and "qc" in several letter cases
TypedKeywords ==
    {<<"m", "l">>, <<"M", "L">>, <<"M", "l">>, <<"q", "c">>, <<"Q", "c">>}

KeywordRow(id, keyword, weight, source) ==
    [id |-> id, keyword |-> keyword, weight |-> weight, source |-> source]

KeywordRowsOf(d, keyword) == {r \in Rows(d, "keyword_interests") : r.keyword = keyword}

\* INSERT INTO keyword_interests (keyword, weight, source) VALUES (?, ?, 'explicit')
\* ON CONFLICT(keyword) DO UPDATE SET weight = ?
UpsertKeyword(d, keyword, weight) ==
    IF KeywordRowsOf(d, keyword) = {}
    THEN Insert(d, "keyword_interests",
                KeywordRow(NextId(d, "keyword_interests"), keyword, weight, "explicit"))
    ELSE [d EXCEPT !.rows["keyword_interests"] =
             {IF r.keyword = keyword THEN [r EXCEPT !.weight = weight] ELSE r : r \in @}]

\* variant: the keyword stored as typed
add_keyword_as_typed(d, keyword, weight) == UpsertKeyword(d, keyword, weight)

\* add_keyword(keyword, weight): the row is keyed by keyword.lower()
add_keyword(d, keyword, weight) == UpsertKeyword(d, Lower(keyword), weight)

\* remove_keyword(keyword): DELETE ... WHERE keyword = keyword.lower()
remove_keyword(d, keyword) == Delete(d, "keyword_interests", KeywordRowsOf(d, Lower(keyword)))

\* the rows of a set in the orders ORDER BY weight DESC allows
HeaviestFirst(rows) ==
    {f \in [1..Cardinality(rows) -> rows] :
        /\ \A i, j \in 1..Cardinality(rows) : f[i] = f[j] => i = j
        /\ \A i, j \in 1..Cardinality(rows) : i < j => RLe(f[j].weight, f[i].weight)}

\* get_keywords(): the lists it can return
get_keywords(d) ==
    {[k \in 1..Len(f) |-> KeywordInterest(f[k].keyword, f[k].weight)] :
        f \in HeaviestFirst(Rows(d, "keyword_interests"))}

\* a keyword call: what was called, with what, what came back, and the
\* latest call per lower-cased keyword before and after it
KeywordAdded(weight) == [present |-> TRUE, weight |-> weight]

KeywordCall(call, keyword, returned, before, latest) ==
    [call |-> call, keyword |-> keyword, returned |-> returned, before |-> before,
     latest |-> latest]

KeywordInit ==
    /\ EngineInit
    /\ db = init_db
    /\ session = KeywordCall("idle", <<>>, None, [k \in KeywordNames |-> Removed],
                             [k \in KeywordNames |-> Removed])

AddKeyword(keyword, weight) ==
    /\ KeywordRowsOf(db, Lower(keyword)) = {} => NextId(db, "keyword_interests") <= MaxRowId
    /\ db' = add_keyword(db, keyword, weight)
    /\ session' = KeywordCall("add_keyword", keyword, None, session.latest,
                              [session.latest EXCEPT ![Lower(keyword)] = KeywordAdded(weight)])
    /\ UNCHANGED engine_vars

RemoveKeyword(keyword) ==
    /\ db' = remove_keyword(db, keyword)
    /\ session' = KeywordCall("remove_keyword", keyword,
                              KeywordRowsOf(db, Lower(keyword)) # {},
                              session.latest,
                              [session.latest EXCEPT ![Lower(keyword)] = Removed])
    /\ UNCHANGED engine_vars

GetKeywords ==
    /\ \E returned \in get_keywords(db) :
         session' = KeywordCall("get_keywords", <<>>, returned, session.latest, session.latest)
    /\ UNCHANGED <<db>>
    /\ UNCHANGED engine_vars

KeywordNext ==
    \/ \E keyword \in TypedKeywords, weight \in Weights : AddKeyword(keyword, weight)
    \/ \E keyword \in TypedKeywords : RemoveKeyword(keyword)
    \/ GetKeywords

KeywordSpec == KeywordInit /\ [][KeywordNext]_vars

\* text without an upper-case letter
UpperCaseLetters == {"M", "L", "Q"}
InLowerCase(str) == \A i \in 1..Len(str) : str[i] \notin UpperCaseLetters

KeywordEntriesOf(list, keyword) == {i \in 1..Len(list) : list[i].keyword = keyword}

(* C23: after any sequence of add_keyword and remove_keyword calls with     *)
(* keywords in any letter case, every keyword get_keywords returns is in   *)
(* lower case and each lower-cased keyword has at most one entry, there    *)
(* exactly when the latest call for it (in whatever case) was add_keyword, *)
(* with the weight of that add; remove_keyword of a keyword in another     *)
(* case than it was added in removes it.                                   *)
C23_KeywordsLowerCased ==
    /\ \A list \in get_keywords(db) :
          /\ \A i \in 1..Len(list) : InLowerCase(list[i].keyword)
          /\ \A k \in KeywordNames :
                /\ Cardinality(KeywordEntriesOf(list, k)) <= 1
                /\ KeywordEntriesOf(list, k) # {} <=> session.latest[k].present
                /\ \A i \in KeywordEntriesOf(list, k) : list[i].weight = session.latest[k].weight
    /\ session.call = "remove_keyword" =>
          (session.returned <=> session.before[Lower(session.keyword)].present)

\* a keyword that is stored with the weight of its second add is removed
\* under a name with an upper-case letter
C23_Witness ==
    /\ session.call = "remove_keyword"
    /\ ~InLowerCase(session.keyword)
    /\ session.returned = TRUE
    /\ session.before[Lower(session.keyword)] = KeywordAdded(Rat(3, 2))
    /\ db.sequence["keyword_interests"] = 1
    /\ Rows(db, "keyword_interests") = {}

-----------------------------------------------------------------------------
(* services/review_service.py: PaperReviewService and its section cache,   *)
(* the table paper_review_sections.  SCHEMA does not create that table,    *)
(* so on the database of init_db every statement on it ends in             *)
(* sqlite3.OperationalError (no such table).                               *)

\* a JSON object as json.loads returns it: its items in order
Dict(items) == [kind |-> "dict", items |-> items]
NoData == [kind |-> "None"]

\* json.dumps(data): the text, token by token
RECURSIVE ItemTokens(_)
ItemTokens(items) ==
    IF items = <<>> THEN <<>>
    ELSE <<Head(items)[1], Head(items)[2]>> \o ItemTokens(Tail(items))

JsonDumps(data) == <<"{">> \o ItemTokens(data.items) \o <<"}">>

\* json.loads(text)
JsonLoads(text) ==
    Dict([i \in 1..((Len(text) - 2) \div 2) |-> <<text[2 * i], text[2 * i + 1]>>])

\* Python's `if data:` for what _invoke_ai returns: None and {} are false
HasData(data) == data.kind = "dict" /\ data.items # <<>>

Section(section_type, needs_full_text) ==
    [section_type |-> section_type, needs_full_text |-> needs_full_text]

SECTION_PIPELINE ==
    <<Section("executive_summary", FALSE), Section("key_contributions", FALSE),
      Section("section_summaries", TRUE), Section("methodology", TRUE),
      Section("math_formulations", TRUE), Section("figures", TRUE), Section("tables", TRUE),
      Section("experimental_results", TRUE), Section("strengths_weaknesses", FALSE),
      Section("related_work", TRUE), Section("glossary", FALSE), Section("questions", FALSE)>>

ReviewSectionType == {SECTION_PIPELINE[i].section_type : i \in 1..Len(SECTION_PIPELINE)}

\* the sections that get empty data instead of an AI call without full text
EmptyWithoutFullText == {"figures", "tables", "math_formulations"}

_empty_section_data(section_type) ==
    CASE section_type = "figures" -> Dict(<<<<"figures", "[]">>>>)
      [] section_type = "tables" -> Dict(<<<<"tables", "[]">>>>)
      [] section_type = "math_formulations" -> Dict(<<<<"formulations", "[]">>>>)
      [] OTHER -> Dict(<<>>)

ReviewSectionRow(id, arxiv_id, section_type, content_json, source_type) ==
    [id |-> id, arxiv_id |-> arxiv_id, section_type |-> section_type,
     content_json |-> content_json, source_type |-> source_type]

SectionRowsOf(d, arxiv_id) == {r \in Rows(d, "paper_review_sections") : r.arxiv_id = arxiv_id}

\* what a cache operation ends with: the database, the returned value and
\* the exception
Outcome(d, returned, exc) == [db |-> d, returned |-> returned, raised |-> exc]

\* _save_section: INSERT OR REPLACE INTO paper_review_sections
_save_section(d, arxiv_id, section_type, data, source_type) ==
    IF NoSuchTable(d, "paper_review_sections") THEN Outcome(d, None, "OperationalError")
    ELSE Outcome(
            Insert(Delete(d, "paper_review_sections",
                          {r \in SectionRowsOf(d, arxiv_id) : r.section_type = section_type}),
                   "paper_review_sections",
                   ReviewSectionRow(NextId(d, "paper_review_sections"), arxiv_id, section_type,
                                    JsonDumps(data), source_type)),
            None, None)

\* _get_cached_section: the row of the key, or None
_get_cached_section(d, arxiv_id, section_type) ==
    IF NoSuchTable(d, "paper_review_sections") THEN Outcome(d, NoData, "OperationalError")
    ELSE LET found == {r \in SectionRowsOf(d, arxiv_id) : r.section_type = section_type}
         IN  IF found = {} THEN Outcome(d, NoData, None)
             ELSE Outcome(d, CHOOSE r \in found : TRUE, None)

\* _get_all_cached_sections: section type -> row
_get_all_cached_sections(d, arxiv_id) ==
    IF NoSuchTable(d, "paper_review_sections") THEN Outcome(d, <<>>, "OperationalError")
    ELSE Outcome(d,
                 [st \in {r.section_type : r \in SectionRowsOf(d, arxiv_id)} |->
                     CHOOSE r \in SectionRowsOf(d, arxiv_id) : r.section_type = st],
                 None)

\* delete_review: DELETE FROM paper_review_sections WHERE arxiv_id = ?
delete_review(d, arxiv_id) ==
    IF NoSuchTable(d, "paper_review_sections") THEN Outcome(d, FALSE, "OperationalError")
    ELSE Outcome(Delete(d, "paper_review_sections", SectionRowsOf(d, arxiv_id)),
                 SectionRowsOf(d, arxiv_id) # {}, None)

NoReview == [kind |-> "None"]
PaperReview(arxiv_id, sections, source_type) ==
    [kind |-> "PaperReview", arxiv_id |-> arxiv_id, sections |-> sections,
     source_type |-> source_type]

\* get_cached_review: the cached sections decoded, None without any
get_cached_review(d, arxiv_id) ==
    LET cached == _get_all_cached_sections(d, arxiv_id)
    IN  IF cached.raised # None THEN Outcome(d, NoReview, cached.raised)
        ELSE IF DOMAIN cached.returned = {} THEN Outcome(d, NoReview, None)
        ELSE Outcome(d,
                     PaperReview(arxiv_id,
                                 [st \in DOMAIN cached.returned |->
                                     JsonLoads(cached.returned[st].content_json)],
                                 "cached"),
                     None)

\* the callbacks of generate_review
OnSectionStart(section_type, idx, total) ==
    [callback |-> "on_section_start", section_type |-> section_type, idx |-> idx,
     total |-> total]
OnSectionComplete(section_type, success) ==
    [callback |-> "on_section_complete", section_type |-> section_type, success |-> success]

Put(f, k, v) == [x \in DOMAIN f \cup {k} |-> IF x = k THEN v ELSE f[x]]

\* a run of generate_review: the database, sections_data, the callbacks made
\* and the sections the AI was invoked for, in order
Run(d, sections, events, invoked) ==
    [db |-> d, sections |-> sections, events |-> events, invoked |-> invoked]

\* the loop of generate_review from pipeline entry idx (counted from 1) on
RECURSIVE ProcessSections(_, _, _, _, _, _, _)
ProcessSections(idx, run, arxiv_id, force, full_text, ai, cached) ==
    IF idx > Len(SECTION_PIPELINE) THEN run
    ELSE LET section_type == SECTION_PIPELINE[idx].section_type
             needs_full_text == SECTION_PIPELINE[idx].needs_full_text
             source_type == IF full_text THEN "full_text" ELSE "abstract"
             started == Append(run.events,
                               OnSectionStart(section_type, idx - 1, Len(SECTION_PIPELINE)))
             empty == _empty_section_data(section_type)
             data == ai[section_type]
             after ==
                 IF ~force /\ section_type \in DOMAIN cached
                 THEN Run(run.db,
                          Put(run.sections, section_type,
                              JsonLoads(cached[section_type].content_json)),
                          Append(started, OnSectionComplete(section_type, TRUE)),
                          run.invoked)
                 ELSE IF needs_full_text /\ ~full_text /\ section_type \in EmptyWithoutFullText
                 THEN Run(_save_section(run.db, arxiv_id, section_type, empty, source_type).db,
                          Put(run.sections, section_type, empty),
                          Append(started, OnSectionComplete(section_type, TRUE)),
                          run.invoked)
                 ELSE IF HasData(data)
                 THEN Run(_save_section(run.db, arxiv_id, section_type, data, source_type).db,
                          Put(run.sections, section_type, data),
                          Append(started, OnSectionComplete(section_type, TRUE)),
                          Append(run.invoked, section_type))
                 ELSE Run(run.db, run.sections,
                          Append(started, OnSectionComplete(section_type, FALSE)),
                          Append(run.invoked, section_type))
         IN  ProcessSections(idx + 1, after, arxiv_id, force, full_text, ai, cached)

\* generate_review(paper, force, on_section_start, on_section_complete), with
\* full_text telling whether _extract_full_text found the text and ai what
\* _invoke_ai returns for each section's prompt
generate_review(d, arxiv_id, force, full_text, ai) ==
    LET cached == _get_all_cached_sections(d, arxiv_id)
        run == ProcessSections(1, Run(d, <<>>, <<>>, <<>>), arxiv_id, force, full_text, ai,
                               cached.returned)
    IN  IF cached.raised # None
        THEN [db |-> d, returned |-> NoReview, raised |-> cached.raised,
              events |-> <<>>, invoked |-> <<>>]
        ELSE [db |-> run.db,
              returned |-> IF DOMAIN run.sections = {} THEN NoReview
                           ELSE PaperReview(arxiv_id, run.sections,
                                            IF full_text THEN "full_text" ELSE "abstract"),
              raised |-> None, events |-> run.events, invoked |-> run.invoked]

\* what _invoke_ai returns for the prompts of one generate_review call: data
\* for every section, none at all ({} or None), or none for one section
Produced == Dict(<<<<"dummy", "data">>>>)
AllSections(data) == [st \in ReviewSectionType |-> data]
AIOracles ==
    {AllSections(Produced), AllSections(NoData), AllSections(Dict(<<>>))}
        \cup {[AllSections(Produced) EXCEPT ![st] = NoData] : st \in ReviewSectionType}

\* the data the tests save
SavedData == {Dict(<<<<"tldr", "old">>>>), Dict(<<<<"tldr", "new">>>>)}

\* the cached sections of a paper as the table holds them (none when there
\* is no table)
CachedSections(d, arxiv_id) ==
    IF NoSuchTable(d, "paper_review_sections") THEN <<>>
    ELSE _get_all_cached_sections(d, arxiv_id).returned

\* a review-service call: what was called, with what, what the cache held
\* before it, and what came of it
ReviewCall(call, arxiv_id, args, cached, out) ==
    [call |-> call, arxiv_id |-> arxiv_id, args |-> args, cached |-> cached, out |-> out]

ReviewInit ==
    /\ EngineInit
    /\ db = init_db
    /\ session = ReviewCall("idle", None, <<>>, <<>>, Outcome(init_db, None, None))

SaveSection(arxiv_id, section_type, data, source_type) ==
    LET out == _save_section(db, arxiv_id, section_type, data, source_type)
    IN  /\ db' = out.db
        /\ session' = ReviewCall("_save_section", arxiv_id,
                                 [section_type |-> section_type, data |-> data,
                                  source_type |-> source_type],
                                 CachedSections(db, arxiv_id), out)
        /\ UNCHANGED engine_vars

GetCachedSection(arxiv_id, section_type) ==
    LET out == _get_cached_section(db, arxiv_id, section_type)
    IN  /\ db' = out.db
        /\ session' = ReviewCall("_get_cached_section", arxiv_id,
                                 [section_type |-> section_type],
                                 CachedSections(db, arxiv_id), out)
        /\ UNCHANGED engine_vars

DeleteReview(arxiv_id) ==
    LET out == delete_review(db, arxiv_id)
    IN  /\ db' = out.db
        /\ session' = ReviewCall("delete_review", arxiv_id, <<>>,
                                 CachedSections(db, arxiv_id), out)
        /\ UNCHANGED engine_vars

GetCachedReview(arxiv_id) ==
    LET out == get_cached_review(db, arxiv_id)
    IN  /\ db' = out.db
        /\ session' = ReviewCall("get_cached_review", arxiv_id, <<>>,
                                 CachedSections(db, arxiv_id), out)
        /\ UNCHANGED engine_vars

GenerateReview(arxiv_id, force, full_text, ai) ==
    LET out == generate_review(db, arxiv_id, force, full_text, ai)
    IN  /\ db' = out.db
        /\ session' = ReviewCall("generate_review", arxiv_id,
                                 [force |-> force, full_text |-> full_text, ai |-> ai],
                                 CachedSections(db, arxiv_id), out)
        /\ UNCHANGED engine_vars

ReviewNext ==
    \/ \E arxiv_id \in ArxivIds, section_type \in ReviewSectionType, data \in SavedData,
          source_type \in {"abstract", "full_text"} :
            SaveSection(arxiv_id, section_type, data, source_type)
    \/ \E arxiv_id \in ArxivIds, section_type \in ReviewSectionType :
            GetCachedSection(arxiv_id, section_type)
    \/ \E arxiv_id \in ArxivIds : DeleteReview(arxiv_id)
    \/ \E arxiv_id \in ArxivIds : GetCachedReview(arxiv_id)
    \/ \E arxiv_id \in ArxivIds, force \in BOOLEAN, full_text \in BOOLEAN, ai \in AIOracles :
            GenerateReview(arxiv_id, force, full_text, ai)

ReviewSpec == ReviewInit /\ [][ReviewNext]_vars

\* a finished generate_review call
Generating == session.call = "generate_review"

\* the sections of a call that get empty data without the AI
EmptiedSections == IF session.args.full_text THEN {} ELSE EmptyWithoutFullText

\* the sections the AI was invoked for, and those it gave data for
InvokedSections == Elements(session.out.invoked)
SectionsWithData == {st \in InvokedSections : HasData(session.args.ai[st])}

(* C24: generate_review(paper, force=False) resumes from the section cache: *)
(* it returns a review, the AI is not invoked for a cached section and the *)
(* review carries the cached content unchanged, and the AI is invoked for  *)
(* the sections not yet cached; with force=True the cached sections are    *)
(* regenerated.                                                            *)
C24_ResumesFromCache ==
    Generating =>
        /\ session.out.raised = None
        /\ ~session.args.force =>
              /\ \A st \in DOMAIN session.cached :
                    /\ st \notin InvokedSections
                    /\ session.out.returned.sections[st] =
                           JsonLoads(session.cached[st].content_json)
              /\ InvokedSections =
                     ReviewSectionType \ (DOMAIN session.cached \cup EmptiedSections)
        /\ session.args.force => InvokedSections = ReviewSectionType \ EmptiedSections

(* C25: during one generate_review call on_section_start(section, idx,     *)
(* total) is called once per section of SECTION_PIPELINE, in pipeline      *)
(* order with idx 0..total-1, each followed by one on_section_complete for *)
(* the same section before the next start; success is False exactly when  *)
(* the AI was invoked for the section and returned no data.                *)
C25_CallbacksInPipelineOrder ==
    Generating =>
        /\ Len(session.out.events) = 2 * Len(SECTION_PIPELINE)
        /\ \A k \in 1..Len(SECTION_PIPELINE) :
              /\ session.out.events[2 * k - 1] =
                     OnSectionStart(SECTION_PIPELINE[k].section_type, k - 1,
                                    Len(SECTION_PIPELINE))
              /\ session.out.events[2 * k] =
                     OnSectionComplete(SECTION_PIPELINE[k].section_type,
                                       ~(/\ SECTION_PIPELINE[k].section_type \in InvokedSections
                                         /\ SECTION_PIPELINE[k].section_type
                                                \notin SectionsWithData))

(* C26: the section cache is a map keyed by (arxiv_id, section type) on    *)
(* the database init_db creates: after _save_section(id, type, data,       *)
(* source) _get_cached_section(id, type) returns a section whose content   *)
(* decodes to data, the only one of its key; delete_review(id) returns     *)
(* True exactly when a section was cached for id, and get_cached_review(id)*)
(* is None afterwards.                                                     *)
C26_SectionCacheIsMap ==
    /\ session.call = "_save_section" =>
          /\ session.out.raised = None
          /\ \A found \in {_get_cached_section(db, session.arxiv_id, session.args.section_type)} :
                /\ found.raised = None
                /\ found.returned # NoData
                /\ JsonLoads(found.returned.content_json) = session.args.data
          /\ Cardinality({r \in SectionRowsOf(db, session.arxiv_id) :
                              r.section_type = session.args.section_type}) = 1
    /\ session.call = "delete_review" =>
          /\ session.out.raised = None
          /\ session.out.returned <=> DOMAIN session.cached # {}
          /\ get_cached_review(db, session.arxiv_id) = Outcome(db, NoReview, None)

(* C27: in generate_review a section for which the AI returns no data is   *)
(* neither in the returned review nor written to the cache, and is asked   *)
(* of the AI again by a later call: the AI is invoked for every section    *)
(* that has no cached content (and is not filled with empty data); the     *)
(* call returns None only when no section obtained data.                   *)
C27_NoDataNotCached ==
    Generating =>
        /\ \A st \in InvokedSections \ SectionsWithData :
              /\ session.out.returned # NoReview => st \notin DOMAIN session.out.returned.sections
              /\ st \notin DOMAIN CachedSections(db, session.arxiv_id)
        /\ ~session.args.force =>
              \A st \in ReviewSectionType \ (DOMAIN session.cached \cup EmptiedSections) :
                  st \in InvokedSections
        /\ session.out.returned = NoReview =>
              /\ session.out.raised = None
              /\ SectionsWithData = {}
              /\ DOMAIN session.cached = {}

-----------------------------------------------------------------------------
(* services/paper_service.py: get_daily_papers on the singleton engine and *)
(* the preferences of the database.                                        *)

\* what build_user_profile(liked) leaves in the engine and hands back
build_user_profile(liked) ==
    LET documents == [i \in 1..Len(liked) |-> Document(liked[i])]
        fitting == ~is_fitted
        vocab == IF fitting THEN FitVocabulary(documents) ELSE vocabulary
        idfs == IF fitting THEN FitIdf(documents) ELSE idf
        vectors == [i \in 1..Len(liked) |-> Transform(documents[i], vocab, idfs)]
        unchanged == [is_fitted |-> is_fitted, vocabulary |-> vocabulary, idf |-> idf]
    IN  IF NoLikedPapers(liked)
        THEN [engine |-> unchanged, profile |-> NoProfile, raised |-> None]
        ELSE IF fitting /\ vocab = {}
        THEN [engine |-> unchanged, profile |-> NoProfile, raised |-> "ValueError"]
        ELSE [engine |-> [is_fitted |-> TRUE, vocabulary |-> vocab, idf |-> idfs],
              profile |-> Ndarray(MeanVector(vectors, vocab)), raised |-> None]

\* variant: recommended[limit:]
SliceFromLimit(list, limit) == SubSeq(list, limit + 1, Len(list))

\* recommended[:limit] for limit >= 0
Slice(list, limit) == SubSeq(list, 1, IF limit < Len(list) THEN limit ELSE Len(list))

\* the papers fetch_by_category can return
DailyPaperLists == SeqsUpTo({PaperX, PaperY, PaperW}, MaxPapers) \cup {<<PaperN, PaperX>>}

\* the paper of an arxiv id, as the cache or the API returns it
PaperById(arxiv_id) == CHOOSE paper \in PaperPool : paper.arxiv_id = arxiv_id

\* the databases get_daily_papers is called on: as init_db leaves it; with
\* the sample categories; with a keyword and a liked paper as well; with a
\* liked paper whose text holds a stop word only
WithSampleCategories == add_category(add_category(init_db, "hep-ph", 2, 0), "cs.AI", 1, 0)
DailyDatabases ==
    {init_db,
     WithSampleCategories,
     mark_interesting(add_keyword(WithSampleCategories, <<"M", "L">>, Rat(3, 2)), "X", 0),
     mark_interesting(WithSampleCategories, "W", 0)}

Limits == 0..(MaxPapers + 1)

\* a get_daily_papers call: where it is (build_user_profile has returned,
\* or the call is over), its limit, what it read and fetched, the profile it
\* holds, whether it fetched and scored, the list score_papers returned and
\* what it returned
DailyCall(pc, limit, categories, kws, fetched, profile, did_fetch, did_score, recommended,
          returned, exc) ==
    [call |-> "get_daily_papers", pc |-> pc, limit |-> limit, categories |-> categories,
     keywords |-> kws, fetched |-> fetched, user_profile |-> profile,
     did_fetch |-> did_fetch, did_score |-> did_score,
     recommended |-> recommended, returned |-> returned, raised |-> exc]

\* no get_daily_papers call made yet
NoDailyCall ==
    [DailyCall("done", 0, <<>>, <<>>, <<>>, NoProfile, FALSE, FALSE, <<>>, <<>>, None)
        EXCEPT !.call = "idle"]

DailyInit ==
    /\ EngineInit
    /\ db \in DailyDatabases
    /\ session = NoDailyCall

\* get_daily_papers(days, limit) up to the return of build_user_profile,
\* fetch_by_category returning `fetched`
FetchAndBuild(limit, fetched) ==
    /\ session.pc = "done"
    /\ \E categories \in get_categories(db), liked_ids \in get_interesting_papers(db),
          kws \in get_keywords(db) :
         \E built \in {build_user_profile([i \in 1..Len(liked_ids) |->
                                              PaperById(liked_ids[i])])} :
            IF categories = <<>>
            THEN /\ session' = DailyCall("done", limit, categories, <<>>, <<>>, NoProfile,
                                         FALSE, FALSE, <<>>, <<>>, None)
                 /\ UNCHANGED <<is_fitted, vocabulary, idf>>
            ELSE IF built.raised # None
            THEN /\ session' = DailyCall("done", limit, categories, kws, fetched, NoProfile,
                                         TRUE, FALSE, <<>>, <<>>, built.raised)
                 /\ UNCHANGED <<is_fitted, vocabulary, idf>>
            ELSE /\ session' = DailyCall("score_papers", limit, categories, kws, fetched,
                                         built.profile, TRUE, FALSE, <<>>, <<>>, None)
                 /\ is_fitted' = built.engine.is_fitted
                 /\ vocabulary' = built.engine.vocabulary
                 /\ idf' = built.engine.idf
    /\ UNCHANGED db
    /\ UNCHANGED call_vars
    /\ UNCHANGED <<threads, witnessed>>

\* the rest of get_daily_papers: score_papers and the slice, the clock
\* reading ns[i] being taken for fetched[i]
ScoreAndReturn(ns) ==
    /\ session.pc = "score_papers"
    /\ IF Undated(session.fetched)
       THEN session' = [session EXCEPT !.pc = "done", !.did_score = TRUE,
                                       !.raised = "TypeError"]
       ELSE \E recommended \in
                {SortByScore(Scored(session.fetched, session.user_profile,
                                    session.categories, session.keywords, ns,
                                    is_fitted, vocabulary, idf))} :
                session' = [session EXCEPT !.pc = "done", !.did_score = TRUE,
                                           !.recommended = recommended,
                                           !.returned = Slice(recommended, session.limit)]
    /\ UNCHANGED <<is_fitted, vocabulary, idf, db>>
    /\ UNCHANGED call_vars
    /\ UNCHANGED <<threads, witnessed>>

DailyNext ==
    \/ \E limit \in Limits, fetched \in DailyPaperLists : FetchAndBuild(limit, fetched)
    \/ \E ns \in ClockReadings(Len(session.fetched)) : ScoreAndReturn(ns)

DailySpec == DailyInit /\ [][DailyNext]_vars

\* a get_daily_papers call that returned
DailyReturned ==
    session.call = "get_daily_papers" /\ session.pc = "done" /\ session.raised = None

(* C28: get_daily_papers(days, limit) with limit >= 0 returns at most      *)
(* limit entries, the leading entries of the ranking score_papers made of  *)
(* all fetched papers: every returned score is >= the score of every       *)
(* fetched paper left out; without preferred categories it returns the     *)
(* empty list and neither fetches nor scores.                              *)
C28_LeadingEntriesOfRanking ==
    DailyReturned =>
        /\ session.categories = <<>> =>
              session.returned = <<>> /\ ~session.did_fetch /\ ~session.did_score
        /\ session.categories # <<>> =>
              /\ session.did_fetch /\ session.did_score
              /\ Len(session.returned) <= session.limit
              /\ Len(session.returned) = Len(session.recommended)
                    \/ Len(session.returned) = session.limit
              /\ Len(session.recommended) = Len(session.fetched)
              /\ \A p \in Elements(session.fetched) :
                    Cardinality({k \in 1..Len(session.recommended) :
                                    session.recommended[k].paper = p})
                        = Occurrences(session.fetched, p)
              /\ \A k \in 1..Len(session.returned) :
                    session.returned[k] = session.recommended[k]
              /\ \A k \in 1..Len(session.returned) :
                    \A j \in (Len(session.returned) + 1)..Len(session.recommended) :
                        RLe(session.recommended[j].score, session.returned[k].score)

\* a call that cut a ranking which put a later fetched paper first
C28_Witness ==
    /\ DailyReturned
    /\ session.limit >= 1
    /\ session.limit < Len(session.recommended)
    /\ session.returned[1].paper # session.fetched[1]
    /\ RLt(session.recommended[Len(session.recommended)].score, session.returned[1].score)

\* a call on a database without preferred categories
C28_NoCategoriesWitness ==
    DailyReturned /\ session.categories = <<>> /\ session.limit >= 1

-----------------------------------------------------------------------------
(* mark_interesting and mark_not_interesting on worker threads             *)
(* (DailyPane._do_like and _do_dislike are @work(thread=True)), each with  *)
(* the connection get_connection opens for it.  sqlite3.connect leaves     *)
(* isolation_level at its default: the DELETE opens a transaction, which   *)
(* takes the database's write lock and holds it until conn.commit(); a     *)
(* connection that finds the lock taken waits, and gives up with           *)
(* sqlite3.OperationalError (database is locked) when its timeout is over. *)
(* What a transaction wrote is in its connection's own pages until the     *)
(* commit.                                                                 *)

\* variant: isolation_level=None, every statement committed by itself
AutocommitMode == FALSE

\* sqlite3.connect(db_path): statements run in an implicit transaction
ImplicitTransactions == TRUE

MarkThreads == {1, 2}

MarkCalls == {[mark |-> m, arxiv_id |-> a] : m \in {INTERESTING, NOT_INTERESTING}, a \in ArxivIds}

OtherMark(mark) == IF mark = INTERESTING THEN NOT_INTERESTING ELSE INTERESTING

\* the databases the threads start on: every paper unmarked, liked or disliked
MarkedDatabases ==
    {init_db,
     mark_interesting(init_db, "2401.00001", 0),
     mark_not_interesting(init_db, "2401.00001", 0),
     mark_interesting(mark_not_interesting(init_db, "2401.00001", 0), "2401.00002", 0)}

\* a worker thread: its call, where it is, and the pages of its connection
MarkThread(mark_call, pc, view) == [mark_call |-> mark_call, pc |-> pc, view |-> view]

\* the worker threads, the holder of the write lock (0: nobody) and the clock
MarkSession(workers, lock, clock) == [workers |-> workers, lock |-> lock, clock |-> clock]

MarkThreadsInit ==
    /\ EngineInit
    /\ db \in MarkedDatabases
    /\ \E calls \in [MarkThreads -> MarkCalls] :
         session = MarkSession([t \in MarkThreads |-> MarkThread(calls[t], "delete", init_db)],
                               0, 0)

\* the database a statement of thread t works on
PagesOf(t) == IF session.lock = t THEN session.workers[t].view ELSE db

\* a statement of thread t has written `pages`: they stay with the
\* connection inside a transaction and go to the file without one
Written(t, pages, pc, clock) ==
    IF ImplicitTransactions
    THEN /\ session' = MarkSession([session.workers EXCEPT ![t].pc = pc, ![t].view = pages],
                                   t, clock)
         /\ UNCHANGED db
    ELSE /\ session' = MarkSession([session.workers EXCEPT ![t].pc = pc], 0, clock)
         /\ db' = pages

\* DELETE FROM paper_interactions WHERE arxiv_id = ? AND interaction_type = <the other>
DeleteOther(t) ==
    /\ session.workers[t].pc = "delete"
    /\ session.lock \in {0, t}
    /\ Written(t,
               DeleteInteraction(PagesOf(t), session.workers[t].mark_call.arxiv_id,
                                 OtherMark(session.workers[t].mark_call.mark)),
               "insert", session.clock)
    /\ UNCHANGED engine_vars

\* INSERT OR REPLACE INTO paper_interactions (arxiv_id, interaction_type)
InsertOwn(t) ==
    /\ session.workers[t].pc = "insert"
    /\ session.lock \in {0, t}
    /\ \E now \in ClockFrom(session.clock) :
         Written(t,
                 InsertOrReplaceInteraction(PagesOf(t),
                                            session.workers[t].mark_call.arxiv_id,
                                            session.workers[t].mark_call.mark, now),
                 "commit", now)
    /\ UNCHANGED engine_vars

\* conn.commit(), and the connection is closed
Commit(t) ==
    /\ session.workers[t].pc = "commit"
    /\ db' = PagesOf(t)
    /\ session' = MarkSession([session.workers EXCEPT ![t].pc = "done"],
                              IF session.lock = t THEN 0 ELSE session.lock, session.clock)
    /\ UNCHANGED engine_vars

\* the lock is another connection's and the timeout is over: the statement
\* raises, the connection is closed
LockTimeout(t) ==
    /\ session.workers[t].pc \in {"delete", "insert"}
    /\ session.lock \notin {0, t}
    /\ session' = [session EXCEPT !.workers[t].pc = "OperationalError"]
    /\ UNCHANGED db
    /\ UNCHANGED engine_vars

MarkThreadsNext ==
    \E t \in MarkThreads :
        \/ DeleteOther(t)
        \/ InsertOwn(t)
        \/ Commit(t)
        \/ LockTimeout(t)

MarkThreadsSpec == MarkThreadsInit /\ [][MarkThreadsNext]_vars

\* every worker is through: it committed or it raised
MarksOver == \A t \in MarkThreads : session.workers[t].pc \in {"done", "OperationalError"}
Committed(t) == session.workers[t].pc = "done"

(* C29: when mark_interesting and mark_not_interesting for one paper run   *)
(* concurrently, each on its own connection, every interleaving ends with  *)
(* exactly one interaction record for the paper: once the calls are over,  *)
(* no paper a committed call marked has both an interesting and a          *)
(* not_interesting record, and the committed database never holds two      *)
(* records of one paper.                                                   *)
C29_OneRecordAfterConcurrentMarks ==
    /\ \A a \in ArxivIds : Cardinality(InteractionsOf(db, a)) <= 1
    /\ MarksOver =>
          /\ \E t \in MarkThreads : Committed(t)
          /\ \A t \in MarkThreads :
                Committed(t) =>
                    Cardinality(InteractionsOf(db, session.workers[t].mark_call.arxiv_id)) = 1

\* a like and a dislike of one paper that both committed
C29_Witness ==
    /\ \A t \in MarkThreads : Committed(t)
    /\ session.workers[1].mark_call.arxiv_id = session.workers[2].mark_call.arxiv_id
    /\ session.workers[1].mark_call.mark # session.workers[2].mark_call.mark

-----------------------------------------------------------------------------
(* ReadingListService on the tables reading_lists and reading_list_papers. *)
(* reading_list_papers.list_id REFERENCES reading_lists(id) ON DELETE      *)
(* CASCADE; SQLite acts on a foreign key only on a connection that has run *)
(* PRAGMA foreign_keys = ON, and get_connection runs no PRAGMA.            *)

\* the row ids the reading-list tables go up to
MaxListRowId == 2

\* get_connection: sqlite3.connect and the row factory, foreign keys off
foreign_keys == FALSE

ListNames == {"theory", "lattice"}
\* create_list(name): description is left at its default
Descriptions == {None}
UNREAD == "unread"
READING == "reading"
COMPLETED == "completed"
ReadingStatus == {UNREAD, READING, COMPLETED}

ReadingListRow(id, name, description, created_at) ==
    [id |-> id, name |-> name, description |-> description, created_at |-> created_at]

ReadingListPaperRow(id, list_id, arxiv_id, status, position, added_at) ==
    [id |-> id, list_id |-> list_id, arxiv_id |-> arxiv_id, status |-> status,
     position |-> position, added_at |-> added_at]

ListsNamed(d, name) == {r \in Rows(d, "reading_lists") : r.name = name}
PapersOfList(d, list_id) == {r \in Rows(d, "reading_list_papers") : r.list_id = list_id}
PapersWithId(d, arxiv_id) == {r \in Rows(d, "reading_list_papers") : r.arxiv_id = arxiv_id}

\* get_list(name): the row of the list, or None (NoList)
NoList == ReadingListRow(0, None, None, 0)
get_list(d, name) ==
    IF ListsNamed(d, name) = {} THEN NoList ELSE CHOOSE r \in ListsNamed(d, name) : TRUE

\* create_list: INSERT INTO reading_lists; name is UNIQUE
create_list(d, name, description, now) ==
    IF ListsNamed(d, name) # {}
    THEN Outcome(d, None, "IntegrityError")
    ELSE Outcome(Insert(d, "reading_lists",
                        ReadingListRow(NextId(d, "reading_lists"), name, description, now)),
                 ReadingListRow(NextId(d, "reading_lists"), name, description, now), None)

\* the rows a DELETE FROM reading_lists takes with it
Cascade(d, lists) ==
    IF foreign_keys
    THEN Delete(d, "reading_list_papers",
                {r \in Rows(d, "reading_list_papers") : r.list_id \in {l.id : l \in lists}})
    ELSE d

\* delete_list: DELETE FROM reading_lists WHERE name = ?; rowcount > 0
delete_list(d, name) ==
    Outcome(Delete(Cascade(d, ListsNamed(d, name)), "reading_lists", ListsNamed(d, name)),
            ListsNamed(d, name) # {}, None)

MaxPosition(rows) ==
    IF rows = {} THEN 0 ELSE CHOOSE p \in {r.position : r \in rows} :
                                 \A r \in rows : r.position <= p

\* add_paper: INSERT OR IGNORE at position MAX(position) + 1 of the list
add_paper(d, list_name, arxiv_id, now) ==
    IF get_list(d, list_name) = NoList
    THEN Outcome(d, FALSE, None)
    ELSE LET list_id == get_list(d, list_name).id
         IN  IF PapersOfList(d, list_id) \cap PapersWithId(d, arxiv_id) # {}
             THEN Outcome(d, TRUE, None)
             ELSE Outcome(Insert(d, "reading_list_papers",
                                 ReadingListPaperRow(NextId(d, "reading_list_papers"), list_id,
                                                     arxiv_id, UNREAD,
                                                     MaxPosition(PapersOfList(d, list_id)) + 1,
                                                     now)),
                          TRUE, None)

\* remove_paper: DELETE ... WHERE list_id = ? AND arxiv_id = ?; rowcount > 0
remove_paper(d, list_name, arxiv_id) ==
    IF get_list(d, list_name) = NoList
    THEN Outcome(d, FALSE, None)
    ELSE LET gone == PapersOfList(d, get_list(d, list_name).id) \cap PapersWithId(d, arxiv_id)
         IN  Outcome(Delete(d, "reading_list_papers", gone), gone # {}, None)

\* update_status: UPDATE reading_list_papers SET status = ? WHERE arxiv_id = ?
update_status(d, arxiv_id, status) ==
    Outcome([d EXCEPT !.rows["reading_list_papers"] =
                {IF r.arxiv_id = arxiv_id THEN [r EXCEPT !.status = status] ELSE r : r \in @}],
            PapersWithId(d, arxiv_id) # {}, None)

\* the rows of a set ORDER BY position
RECURSIVE ByPosition(_)
ByPosition(rows) ==
    IF rows = {} THEN <<>>
    ELSE LET last == CHOOSE r \in rows : \A o \in rows : o.position <= r.position
         IN  Append(ByPosition(rows \ {last}), last)

\* get_papers: the rows of the list, [] for a list that is not there
get_papers(d, list_name) ==
    IF get_list(d, list_name) = NoList
    THEN Outcome(d, <<>>, None)
    ELSE Outcome(d, ByPosition(PapersOfList(d, get_list(d, list_name).id)), None)

\* a reading-list call: what was called, with what, what came back or was
\* raised, and the lists the call found under the name it was given
ReadingCall(call, name, arxiv_id, found, outcome, clock) ==
    [call |-> call, name |-> name, arxiv_id |-> arxiv_id, found |-> found,
     returned |-> outcome.returned, raised |-> outcome.raised, clock |-> clock]

ReadingInit ==
    /\ EngineInit
    /\ db = init_db
    /\ session = ReadingCall("idle", None, None, {}, Outcome(init_db, None, None), 0)

CreateList(name, description) ==
    /\ NextId(db, "reading_lists") <= MaxListRowId
    /\ \E now \in ClockFrom(session.clock) :
         /\ db' = create_list(db, name, description, now).db
         /\ session' = ReadingCall("create_list", name, None, ListsNamed(db, name),
                                   create_list(db, name, description, now), now)
    /\ UNCHANGED engine_vars

DeleteList(name) ==
    /\ db' = delete_list(db, name).db
    /\ session' = ReadingCall("delete_list", name, None, ListsNamed(db, name),
                              delete_list(db, name), session.clock)
    /\ UNCHANGED engine_vars

AddPaper(list_name, arxiv_id) ==
    /\ NextId(db, "reading_list_papers") <= MaxListRowId
    /\ \E now \in ClockFrom(session.clock) :
         /\ db' = add_paper(db, list_name, arxiv_id, now).db
         /\ session' = ReadingCall("add_paper", list_name, arxiv_id, ListsNamed(db, list_name),
                                   add_paper(db, list_name, arxiv_id, now), now)
    /\ UNCHANGED engine_vars

RemovePaper(list_name, arxiv_id) ==
    /\ db' = remove_paper(db, list_name, arxiv_id).db
    /\ session' = ReadingCall("remove_paper", list_name, arxiv_id, ListsNamed(db, list_name),
                              remove_paper(db, list_name, arxiv_id), session.clock)
    /\ UNCHANGED engine_vars

UpdateStatus(arxiv_id, status) ==
    /\ db' = update_status(db, arxiv_id, status).db
    /\ session' = ReadingCall("update_status", None, arxiv_id, {},
                              update_status(db, arxiv_id, status), session.clock)
    /\ UNCHANGED engine_vars

GetPapers(list_name) ==
    /\ session' = ReadingCall("get_papers", list_name, None, ListsNamed(db, list_name),
                              get_papers(db, list_name), session.clock)
    /\ UNCHANGED <<db>>
    /\ UNCHANGED engine_vars

ReadingNext ==
    \/ \E name \in ListNames, description \in Descriptions : CreateList(name, description)
    \/ \E name \in ListNames : DeleteList(name)
    \/ \E name \in ListNames, arxiv_id \in ArxivIds : AddPaper(name, arxiv_id)
    \/ \E name \in ListNames, arxiv_id \in ArxivIds : RemovePaper(name, arxiv_id)
    \/ \E arxiv_id \in ArxivIds, status \in ReadingStatus : UpdateStatus(arxiv_id, status)
    \/ \E name \in ListNames : GetPapers(name)

ReadingSpec == ReadingInit /\ [][ReadingNext]_vars

ExistingListIds == {l.id : l \in Rows(db, "reading_lists")}

(* C30: after delete_list(name) has returned True no reading_list_papers   *)
(* row refers to the deleted list, so update_status(arxiv_id) returns True *)
(* only for a paper that is in some existing reading list.                 *)
C30_MembershipGoesWithList ==
    /\ (session.call = "delete_list" /\ session.returned = TRUE) =>
          \A r \in Rows(db, "reading_list_papers") : r.list_id \notin {l.id : l \in session.found}
    /\ (session.call = "update_status" /\ session.returned = TRUE) =>
          \E r \in PapersWithId(db, session.arxiv_id) : r.list_id \in ExistingListIds
====
